---- MODULE Spec2Model ----
(***************************************************************************)
(* CrossModalRAG: the chunker, the SQLite evidence store, the fingerprint  *)
(* synchronizer of the note and git ingestion passes, and the evaluation   *)
(* query loader, as state machines.                                        *)
(*                                                                         *)
(* Text is a sequence of one-character strings.  SQL NULL / Python None is *)
(* the empty tuple NULL; every nullable column holds either NULL or a      *)
(* non-empty tuple, so that values of one column are always comparable.    *)
(***************************************************************************)
EXTENDS Integers, Sequences, FiniteSets, Bags, TLC

VARIABLES
    \* ---- chunking.py: chunk_text's frame
    text,             \* argument text
    max_chars,        \* argument max_chars
    overlap,          \* argument overlap
    cleaned,          \* local cleaned
    chunks,           \* local chunks (the returned list once cpc = "done")
    start,            \* local start
    end,              \* local end
    cpc,              \* position in chunk_text: "entry", "loop", "done"
    \* ---- db.py: what the open connection sees
    sources,          \* table sources: set of rows
    evidence_chunks,  \* table evidence_chunks: bag of rows (the row id, which no
                      \* ingestion statement reads, is left out; a bag keeps
                      \* two equal rows apart)
    queries_eval,     \* table queries_eval: set of rows
    seq,              \* sqlite_sequence: last AUTOINCREMENT id per table
    committed,        \* the four above as last committed to the database file
    \* ---- the running top-level call (ingest_notes / ingest_git / eval_cmd)
    pc,               \* "idle"; "notes", "git": at the head of the loop;
                      \* "notes_chunks", "git_chunks": the synchronizer has
                      \* returned "changed", the chunks are not yet replaced;
                      \* "raised": an exception is on its way to the caller
    md_files,         \* ingest_notes: the sorted list of note paths
    rows,             \* ingest_git: the commit rows git log gave
    pos,              \* number of loop iterations finished
    target,           \* ingest_git: (target_author_name, target_author_email)
    inserted_chunks,  \* local inserted_chunks
    item,             \* the record of the last loop iteration: the arguments
                      \* handed to the synchronizer, and the text
    source_id,        \* local source_id of the last loop iteration (0: none)
    unchanged,        \* local unchanged of the last loop iteration
    branch,           \* the return statement the synchronizer left by
    exc,              \* the exception that ended the call ("": none)
    \* ---- retrieve/lexical.py: lexical_overlap_score's frame
    q_tokens,         \* argument query_tokens
    d_tokens,         \* argument doc_tokens
    lex,              \* the float returned (NULL before the return)
    lpc,              \* "idle", "entry", "done"
    \* ---- retrieve/lexical.py: retrieve's frame
    query,            \* argument query
    top_k,            \* argument top_k (of retrieve and of run_eval)
    now,              \* local now, in ticks
    fetched,          \* local rows: what fetchall() gave, in scan order
    selected,         \* whether the SELECT was executed
    scored,           \* local scored, once sorted
    hits,             \* the list returned
    rpc,              \* "idle", "select", "done"
    \* ---- evaluation.py: run_eval's frame
    eval_queries,     \* local queries
    results,          \* local results
    summary,          \* the EvalSummary returned (NULL before the return)
    epc,              \* "idle", "loop", "done"
    \* ---- evaluation.py: upsert_eval_queries's frame
    submitted,        \* argument queries of the last call (<<>> before any)
    \* ---- evaluation.py: parse_expected_source_uris's frame
    raw_uris,         \* argument raw
    parsed_uris,      \* the list returned (NULL before the return)
    ppc,              \* "idle", "entry", "done"
    \* ---- sample_data.py: purge_seeded_sample_data's frame
    workspace_dir,    \* argument workspace_dir, resolved (NULL before any call)
    purge_result      \* the PurgeSampleResult returned (NULL before any call)

chunkVars == <<text, max_chars, overlap, cleaned, chunks, start, end, cpc>>
dbVars    == <<sources, evidence_chunks, queries_eval, seq>>
callVars  ==
    <<pc, md_files, rows, pos, target, inserted_chunks, item, source_id, unchanged, branch,
      exc>>
callVarsButPc ==
    <<md_files, rows, pos, target, inserted_chunks, item, source_id, unchanged, branch, exc>>
scoreVars == <<q_tokens, d_tokens, lex, lpc>>
askVars   == <<query, top_k, now, fetched, selected, scored, hits, rpc>>
evalVars  == <<eval_queries, results, summary, epc>>
upsertVars == <<submitted>>
parseVars == <<raw_uris, parsed_uris, ppc>>
purgeVars == <<workspace_dir, purge_result>>
toolVars  == <<upsertVars, parseVars, purgeVars>>
queryVars == <<scoreVars, askVars, evalVars, toolVars>>
vars      == <<chunkVars, dbVars, committed, callVars, queryVars>>

NULL == <<>>

Min(a, b) == IF a <= b THEN a ELSE b
Max(a, b) == IF a >= b THEN a ELSE b

(***************************************************************************)
(* Bounds of the model                                                     *)
(***************************************************************************)
\* chunk_text's window for notes (900 / 120, the defaults of chunking.py:6 that notes.py:36 takes),
\* scaled to the short texts of the model
NoteMaxChars == 3
NoteOverlap == 1
\* chunk_text's window for commits (1400 / 180 in git.py:48), scaled likewise
GitMaxChars == 8
GitOverlap == 2
\* length of the longest note text
MaxNoteLen == 5
\* most rows one (source_type, source_uri) holds in an initial store
MaxDup == 2
\* AUTOINCREMENT ids handed out by sources stop here
MaxSourceId == 3
\* chunk_text step by step: longest text, widest window
MaxTextLen == 6
MaxWindow == 4
\* the ticks of a day: timestamps and now are instants counted in ticks
TicksPerDay == 2
\* the largest top_k asked for (the smallest is -MaxTopK)
MaxTopK == 3
\* most tokens of a list handed to lexical_overlap_score alone
MaxTokens == 3
\* most evaluation queries loaded into a store
MaxEvalQueries == 2
\* AUTOINCREMENT ids handed out by queries_eval stop here
MaxEvalId == 4
\* length of the longest comma-separated text handed to
\* parse_expected_source_uris
MaxRawLen == 4

(***************************************************************************)
(* Python string primitives                                                *)
(***************************************************************************)
Whitespace == {" ", "\n", "\t"}

RECURSIVE LStrip(_)
LStrip(s) == IF s # <<>> /\ Head(s) \in Whitespace THEN LStrip(Tail(s)) ELSE s

RECURSIVE RStrip(_)
RStrip(s) ==
    IF s # <<>> /\ s[Len(s)] \in Whitespace THEN RStrip(SubSeq(s, 1, Len(s) - 1)) ELSE s

\* str.strip()
Strip(s) == RStrip(LStrip(s))

\* s[a:b] for 0 <= a, 0 <= b (Python clips both ends to len(s))
Slice(s, a, b) == SubSeq(s, Min(a, Len(s)) + 1, Min(b, Len(s)))

\* set of all sequences over S of length <= n
RECURSIVE SeqsUpTo(_, _)
SeqsUpTo(S, n) ==
    IF n = 0 THEN {<<>>}
    ELSE LET shorter == SeqsUpTo(S, n - 1)
         IN  shorter \cup {Append(s, c) : s \in {t \in shorter : Len(t) = n - 1}, c \in S}

(***************************************************************************)
(* chunking.py: chunk_text                                                 *)
(***************************************************************************)
\* the window end left unclipped
WindowEndUnclipped(st, mc, cl) == st + mc

\* line 15: end = min(start + max_chars, len(cleaned))
WindowEnd(st, mc, cl) == Min(st + mc, Len(cl))

\* the window moved back by one character more than the overlap
NextStartOffByOne(e, ov) == Max(0, e - ov - 1)

\* line 19: start = max(0, end - overlap)
NextStart(e, ov) == Max(0, e - ov)

\* lines 14-19: the while loop, from a given start with the chunks so far
RECURSIVE ChunkLoop(_, _, _, _, _)
ChunkLoop(cl, mc, ov, st, acc) ==
    IF ~(st < Len(cl)) THEN acc
    ELSE LET e    == WindowEnd(st, mc, cl)
             acc2 == Append(acc, Slice(cl, st, e))
         IN  IF e = Len(cl) THEN acc2
             ELSE ChunkLoop(cl, mc, ov, NextStart(e, ov), acc2)

\* lines 6-20: the whole function (defined for overlap < max_chars)
chunk_text(t, mc, ov) ==
    LET cl == Strip(t)
    IN  IF cl = <<>> THEN <<>>
        ELSE IF Len(cl) <= mc THEN <<cl>>
        ELSE ChunkLoop(cl, mc, ov, 0, <<>>)

(***************************************************************************)
(* db.py: the three tables and the statements the ingestion code issues    *)
(***************************************************************************)
\* a database value: what one connection sees, or what the file holds
DB(src, ch, qe, sq) ==
    [sources |-> src, evidence_chunks |-> ch, queries_eval |-> qe, seq |-> sq]

EmptyDB == DB({}, EmptyBag, {}, [sources |-> 0, queries_eval |-> 0])

\* ... ORDER BY id ASC
RECURSIVE OrderById(_)
OrderById(S) ==
    IF S = {} THEN <<>>
    ELSE LET m == CHOOSE r \in S : \A q \in S : r.id <= q.id
         IN  <<m>> \o OrderById(S \ {m})

\* the WHERE clause left out
SelectAnySource(db, type, uri) == OrderById(db.sources)

\* SELECT ... FROM sources WHERE source_type = ? AND source_uri = ? ORDER BY id ASC
SelectSources(db, type, uri) ==
    OrderById({r \in db.sources : r.source_type = type /\ r.source_uri = uri})

\* INSERT INTO sources (...) VALUES (...); cur.lastrowid is the new seq.sources
InsertSource(db, type, a) ==
    LET id == db.seq.sources + 1
    IN  [db EXCEPT
            !.sources = @ \cup
                {[id |-> id, source_type |-> type, source_uri |-> a.source_uri,
                  source_fingerprint |-> a.source_fingerprint,
                  timestamp |-> a.timestamp, title |-> a.title,
                  metadata_json |-> a.metadata_json]},
            !.seq.sources = id]

\* the DELETE left out
KeepChunks(db, sid) == db

\* DELETE FROM evidence_chunks WHERE source_id = ?
DeleteChunks(db, sid) ==
    [db EXCEPT !.evidence_chunks =
        LET keep == {c \in DOMAIN @ : c.source_id # sid} IN [c \in keep |-> @[c]]]

\* DELETE FROM sources WHERE id = ?
DeleteSource(db, sid) == [db EXCEPT !.sources = {r \in @ : r.id # sid}]

\* the UPDATE left out
UpdateNothing(db, sid, a) == db

\* UPDATE sources SET source_fingerprint = ?, title = ?, metadata_json = ? WHERE id = ?
UpdateBackfill(db, sid, a) ==
    [db EXCEPT !.sources =
        {IF r.id = sid
         THEN [r EXCEPT !.source_fingerprint = a.source_fingerprint,
                        !.title = a.title, !.metadata_json = a.metadata_json]
         ELSE r : r \in @}]

\* UPDATE sources SET source_fingerprint = ?, timestamp = ?, title = ?,
\*                    metadata_json = ? WHERE id = ?
UpdateChanged(db, sid, a) ==
    [db EXCEPT !.sources =
        {IF r.id = sid
         THEN [r EXCEPT !.source_fingerprint = a.source_fingerprint,
                        !.timestamp = a.timestamp,
                        !.title = a.title, !.metadata_json = a.metadata_json]
         ELSE r : r \in @}]

\* enumerate(..., start=1)
ChunkRowsFromOne(sid, cs, meta) ==
    {[source_id |-> sid, chunk_index |-> i, chunk_text |-> cs[i],
      metadata_json |-> meta] : i \in 1..Len(cs)}

\* for idx, chunk in enumerate(...): INSERT INTO evidence_chunks (...)
ChunkRows(sid, cs, meta) ==
    {[source_id |-> sid, chunk_index |-> i - 1, chunk_text |-> cs[i],
      metadata_json |-> meta] : i \in 1..Len(cs)}

InsertChunks(db, sid, cs, meta) ==
    [db EXCEPT !.evidence_chunks = @ (+) SetToBag(ChunkRows(sid, cs, meta))]

\* the chunk rows of one source, as a bag
ChunksOf(db, sid) ==
    LET own == {c \in DOMAIN db.evidence_chunks : c.source_id = sid}
    IN  [c \in own |-> db.evidence_chunks[c]]

(***************************************************************************)
(* ingest/notes.py, ingest/git.py: the fingerprint synchronizer            *)
(***************************************************************************)
\* hashlib.sha256(text.encode("utf-8")).hexdigest(): a digest, taken to be
\* free of collisions; it is never NULL
source_fingerprint_of(t) == <<"sha256">> \o t

\* rows[0]
FirstRow(found) == found[1]

\* rows[-1]
Canonical(found) == found[Len(found)]

\* rows, the last one included
EveryRow(found) == found

\* rows[:-1]
NonCanonical(found) == SubSeq(found, 1, Len(found) - 1)

\* the timestamps not compared
LegacyWhateverTimestamp(existing_fingerprint, existing_timestamp, a) ==
    existing_fingerprint = NULL

\* is_legacy_unchanged = existing_fingerprint is None and existing_timestamp == timestamp
IsLegacyUnchanged(existing_fingerprint, existing_timestamp, a) ==
    existing_fingerprint = NULL /\ existing_timestamp = a.timestamp

\* `and' where the code has `or'
UnchangedAndLegacy(existing_fingerprint, existing_timestamp, a) ==
    /\ existing_fingerprint = a.source_fingerprint
    /\ IsLegacyUnchanged(existing_fingerprint, existing_timestamp, a)

\* is_unchanged = existing_fingerprint == source_fingerprint or is_legacy_unchanged
IsUnchanged(existing_fingerprint, existing_timestamp, a) ==
    \/ existing_fingerprint = a.source_fingerprint
    \/ IsLegacyUnchanged(existing_fingerprint, existing_timestamp, a)

\* the loop over rows[:-1] left out
KeepDuplicates(db, old) == db

\* for row in rows[:-1]: delete its chunks, then the row
RECURSIVE CollapseDuplicates(_, _)
CollapseDuplicates(db, old) ==
    IF old = <<>> THEN db
    ELSE CollapseDuplicates(DeleteSource(DeleteChunks(db, Head(old).id), Head(old).id),
                            Tail(old))

\* the body shared by _upsert_note_source and _upsert_git_source; `branch'
\* names the return statement taken
UpsertSource(db, type, a) ==
    LET found == SelectSources(db, type, a.source_uri)
    IN  IF found = <<>>
        THEN LET db1 == InsertSource(db, type, a)
             IN  [db |-> db1, source_id |-> db1.seq.sources, unchanged |-> FALSE,
                  branch |-> "insert"]
        ELSE LET canonical_id         == Canonical(found).id
                 existing_fingerprint == Canonical(found).source_fingerprint
                 existing_timestamp   == Canonical(found).timestamp
                 is_unchanged ==
                     IsUnchanged(existing_fingerprint, existing_timestamp, a)
                 db1 == CollapseDuplicates(db, NonCanonical(found))
             IN  IF is_unchanged
                 THEN IF existing_fingerprint = NULL
                      THEN [db |-> UpdateBackfill(db1, canonical_id, a),
                            source_id |-> canonical_id, unchanged |-> TRUE,
                            branch |-> "backfill"]
                      ELSE [db |-> db1, source_id |-> canonical_id,
                            unchanged |-> TRUE, branch |-> "unchanged"]
                 ELSE [db |-> UpdateChanged(db1, canonical_id, a),
                       source_id |-> canonical_id, unchanged |-> FALSE,
                       branch |-> "changed"]

upsert_note_source(db, a) == UpsertSource(db, "note", a)

upsert_git_source(db, a) == UpsertSource(db, "git_commit", a)

\* the INSERT loop without the DELETE before it
AppendChunks(db, sid, a, mc, ov) ==
    InsertChunks(db, sid, chunk_text(a.text, mc, ov), a.chunk_metadata)

\* DELETE FROM evidence_chunks WHERE source_id = ?, then the INSERT loop over
\* the chunker's output (notes.py 35-44, git.py 47-69)
WriteChunks(db, sid, a, mc, ov) ==
    InsertChunks(DeleteChunks(db, sid), sid, chunk_text(a.text, mc, ov), a.chunk_metadata)

\* if unchanged: continue; else replace the chunks (notes.py 32-44, git.py 44-69);
\* r is what the synchronizer returned
ReplaceChunks(r, a, mc, ov) ==
    IF r.unchanged
    THEN [db |-> r.db, source_id |-> r.source_id, unchanged |-> TRUE,
          branch |-> r.branch, inserted |-> 0]
    ELSE [db |-> WriteChunks(r.db, r.source_id, a, mc, ov),
          source_id |-> r.source_id, unchanged |-> FALSE, branch |-> r.branch,
          inserted |-> Len(chunk_text(a.text, mc, ov))]

(***************************************************************************)
(* The vault, the repository and the environments the calls are run on     *)
(***************************************************************************)
PathA == <<"/", "v", "/", "a", ".", "m", "d">>
PathB == <<"/", "v", "/", "b", ".", "m", "d">>
NotePaths == {PathA, PathB}
RepoPath  == <<"/", "r">>
Sha1 == <<"1">>
Sha2 == <<"2">>
Shas == {Sha1, Sha2}

Letters == <<"a", "b", "c", "d", "e", "f", "g", "h">>
\* what a.md can hold: nothing, one letter, the same letter inside blanks, a
\* text longer than one window; b.md is never edited
NoteTexts(path) ==
    IF path = PathA
    THEN {<<>>, <<"a">>, <<" ", "a", "\n">>, Slice(Letters, 0, MaxNoteLen)}
    ELSE {<<"b">>}
Mtimes(path) == IF path = PathA THEN {1, 2} ELSE {2}

Ann   == <<"a", "n", "n">>
Bob   == <<"b", "o", "b">>
MailA == <<"a", "@", "x">>
MailB == <<"b", "@", "x">>
\* what git log prints for a sha is fixed by the sha; what git show prints
\* for the first commit (its patch) varies with the git version and settings
Patches(sha) ==
    IF sha = Sha1 THEN {<<>>, <<" ", "f", " ", "|", " ", "1", "\n">>} ELSE {<<"\n">>}
CommitRow(sha, patch) ==
    IF sha = Sha1
    THEN [sha |-> sha, ts |-> <<1>>, subject |-> <<"A">>, body |-> <<>>,
          author_name |-> Ann, author_email |-> MailA, patch |-> patch]
    ELSE [sha |-> sha, ts |-> <<2>>, subject |-> <<"B">>, body |-> <<"\n">>,
          author_name |-> Ann, author_email |-> MailB, patch |-> patch]
\* git log --no-merges lists the newest commit first
GitLogs ==
    {<<>>} \cup UNION {{<<CommitRow(sha, p)>> : p \in Patches(sha)} : sha \in Shas}
           \cup {<<CommitRow(Sha2, p), CommitRow(Sha1, q)>> :
                    p \in Patches(Sha2), q \in Patches(Sha1)}
\* TARGET_AUTHOR_NAME / TARGET_AUTHOR_EMAIL as found in the environment
EnvNames  == {<<>>, <<" ">>, Ann, Bob \o <<" ">>}
EnvEmails == {<<>>, MailA, <<" ">> \o MailB}

(***************************************************************************)
(* ingest/notes.py: one file of the vault                                  *)
(***************************************************************************)
RECURSIVE LastIndexOf(_, _)
LastIndexOf(s, c) ==
    IF s = <<>> THEN 0
    ELSE IF s[Len(s)] = c THEN Len(s)
    ELSE LastIndexOf(SubSeq(s, 1, Len(s) - 1), c)

\* pathlib: path.stem
Stem(path) ==
    LET name == Slice(path, LastIndexOf(path, "/"), Len(path))
        dot  == LastIndexOf(name, ".")
    IN  IF dot > 1 THEN Slice(name, 0, dot - 1) ELSE name

\* datetime.fromtimestamp(mtime, tz=utc).isoformat(): the timestamp column
\* holds NULL or a one-element tuple
iso_mtime(mtime) == <<mtime>>

\* lines 18-23 and the arguments of lines 24-31 and 42: what one file is
\* ingested as
NoteRecord(path, txt, mtime) ==
    [source_type |-> "note", source_uri |-> path, text |-> txt,
     source_fingerprint |-> source_fingerprint_of(txt),
     timestamp |-> iso_mtime(mtime), title |-> Stem(path),
     metadata_json |-> <<"bytes", Len(txt), "fingerprint", source_fingerprint_of(txt)>>,
     chunk_metadata |-> <<"modality", "text", "source_type", "note">>]

(***************************************************************************)
(* ingest/git.py: one commit row                                           *)
(***************************************************************************)
TitleMax == 200

\* combined = f"commit: {subject}\n\n{body}\n\n{patch}".strip()
Combined(row) ==
    Strip(<<"c", "o", "m", "m", "i", "t", ":", " ">> \o row.subject \o <<"\n", "\n">>
          \o row.body \o <<"\n", "\n">> \o row.patch)

\* lines 21-22, 26-43 and 54-62: what one commit row is ingested as
GitRecord(row) ==
    LET uri == RepoPath \o <<"@">> \o row.sha
        fp  == source_fingerprint_of(Combined(row))
    IN  [source_type |-> "git_commit", source_uri |-> uri, text |-> Combined(row),
         source_fingerprint |-> fp, timestamp |-> row.ts,
         title |-> Slice(row.subject, 0, TitleMax),
         metadata_json |-> <<"repo", RepoPath, "sha", row.sha,
                             "author_name", row.author_name,
                             "author_email", row.author_email, "fingerprint", fp>>,
         chunk_metadata |-> <<"modality", "code+text", "source_type", "git_commit",
                              "sha", row.sha, "author_name", row.author_name,
                              "author_email", row.author_email>>]

\* lines 176-190: _delete_source_and_chunks
RECURSIVE DeleteAll(_, _)
DeleteAll(db, found) ==
    IF found = <<>> THEN db
    ELSE DeleteAll(DeleteSource(DeleteChunks(db, Head(found).id), Head(found).id),
                   Tail(found))

delete_source_and_chunks(db, uri) ==
    DeleteAll(db, SelectSources(db, "git_commit", uri))

\* `and' where the code has `or'
NameAndEmailMismatch(row, tgt) ==
    row.author_name # tgt[1] /\ row.author_email # tgt[2]

\* line 23: the authorship test
AuthorMismatch(row, tgt) ==
    row.author_name # tgt[1] \/ row.author_email # tgt[2]

\* lines 193-200: _load_target_author; NULL stands for the ValueError
load_target_author(env_name, env_email) ==
    LET name == Strip(env_name)
        email == Strip(env_email)
    IN  IF name = <<>> \/ email = <<>> THEN NULL ELSE <<name, email>>

(***************************************************************************)
(* evaluation.py: loading and storing evaluation queries                   *)
(***************************************************************************)
\* json.dumps(list): the expected_source_uris column holds NULL or this
json_dumps(uris) == <<"json", uris>>

\* line 126: [str(x).strip() for x in expected if str(x).strip()]
RECURSIVE StripNonEmpty(_)
StripNonEmpty(xs) ==
    IF xs = <<>> THEN <<>>
    ELSE IF Strip(Head(xs)) = <<>> THEN StripNonEmpty(Tail(xs))
    ELSE <<Strip(Head(xs))>> \o StripNonEmpty(Tail(xs))

\* lines 117-127: the rows from position idx on; error is the position of
\* the first offending row (0: none)
RECURSIVE LoadEvalRows(_, _, _)
LoadEvalRows(items, idx, out) ==
    IF idx > Len(items) THEN [error |-> 0, queries |-> out]
    ELSE LET it == items[idx]
         IN  IF ~it.is_dict THEN [error |-> idx, queries |-> <<>>]
             ELSE IF Strip(it.query_text) = <<>> THEN [error |-> idx, queries |-> <<>>]
             ELSE IF ~it.expected_is_list THEN [error |-> idx, queries |-> <<>>]
             ELSE LoadEvalRows(items, idx + 1,
                      Append(out, [query_text |-> Strip(it.query_text),
                                   expected_source_uris |-> StripNonEmpty(it.expected)]))

\* lines 111-128: load_eval_queries_file; error -1 is "must be a JSON list"
load_eval_queries_file(raw) ==
    IF ~raw.is_list THEN [error |-> -1, queries |-> <<>>]
    ELSE LoadEvalRows(raw.items, 1, <<>>)

\* SELECT id, expected_source_uris FROM queries_eval WHERE query_text = ? ORDER BY id ASC
SelectEval(db, qt) == OrderById({r \in db.queries_eval : r.query_text = qt})

\* the rows stay with the first row of the text only updated
UpdateFirstOnly(db, found, expected_json) ==
    [db EXCEPT !.queries_eval =
        {IF r.id = found[1].id THEN [r EXCEPT !.expected_source_uris = expected_json]
         ELSE r : r \in @}]

\* rows[-1] kept and rows[:-1] deleted, as the source synchronizer does
UpsertKeepingLast(db, found, expected_json) ==
    [db EXCEPT !.queries_eval =
        {IF r.id = found[Len(found)].id
         THEN [r EXCEPT !.expected_source_uris = expected_json]
         ELSE r : r \in {x \in @ : x.id \notin {found[i].id : i \in 1..(Len(found) - 1)}}}]

\* lines 153-164: rows exist for the text
UpsertExisting(db, found, expected_json) ==
    LET canonical_id == found[1].id
        updated ==
            IF found[1].expected_source_uris # expected_json
            THEN {IF r.id = canonical_id
                  THEN [r EXCEPT !.expected_source_uris = expected_json]
                  ELSE r : r \in db.queries_eval}
            ELSE db.queries_eval
        dups == {found[i].id : i \in 2..Len(found)}
    IN  [db EXCEPT !.queries_eval = {r \in updated : r.id \notin dups}]

\* lines 132-164: the loop of upsert_eval_queries
RECURSIVE upsert_eval_queries(_, _)
upsert_eval_queries(db, queries) ==
    IF queries = <<>> THEN db
    ELSE LET q == Head(queries)
             expected_json == json_dumps(q.expected_source_uris)
             found == SelectEval(db, q.query_text)
             db1 == IF found = <<>>
                    THEN [db EXCEPT
                            !.queries_eval = @ \cup
                                {[id |-> db.seq.queries_eval + 1,
                                  query_text |-> q.query_text,
                                  expected_source_uris |-> expected_json]},
                            !.seq.queries_eval = @ + 1]
                    ELSE UpsertExisting(db, found, expected_json)
         IN  upsert_eval_queries(db1, Tail(queries))

\* the query files eval --load-queries is given
EvalItems ==
    {[is_dict |-> FALSE, query_text |-> <<>>, expected_is_list |-> FALSE, expected |-> <<>>],
     [is_dict |-> TRUE, query_text |-> <<" ">>, expected_is_list |-> TRUE, expected |-> <<>>],
     [is_dict |-> TRUE, query_text |-> <<"q">>, expected_is_list |-> FALSE, expected |-> <<>>],
     [is_dict |-> TRUE, query_text |-> <<"q", " ">>, expected_is_list |-> TRUE,
      expected |-> << <<" ">>, <<"u", " ">> >>]}
EvalFiles ==
    {[is_list |-> FALSE, items |-> <<>>]}
    \cup {[is_list |-> TRUE, items |-> its] : its \in SeqsUpTo(EvalItems, 2)}

(***************************************************************************)
(* The stores a call can find                                              *)
(***************************************************************************)
NoteRecords(path) == {NoteRecord(path, t, m) : t \in NoteTexts(path), m \in Mtimes(path)}
GitRecords(sha)   == {GitRecord(CommitRow(sha, p)) : p \in Patches(sha)}
Records ==
    UNION {NoteRecords(path) : path \in NotePaths} \cup UNION {GitRecords(sha) : sha \in Shas}

\* the window chunk_text is called with (notes.py 36, git.py 48)
WindowOf(a) ==
    IF a.source_type = "note" THEN <<NoteMaxChars, NoteOverlap>>
    ELSE <<GitMaxChars, GitOverlap>>

\* one loop iteration for a record (notes.py 24-44, git.py 28-69): the
\* synchronizer and the caller's chunk step
ingest_record(db, a) ==
    ReplaceChunks(UpsertSource(db, a.source_type, a), a, WindowOf(a)[1], WindowOf(a)[2])

\* a row as this code's INSERT leaves it after ingesting record a
FingerprintedRow(id, a) ==
    [id |-> id, source_type |-> a.source_type, source_uri |-> a.source_uri,
     source_fingerprint |-> a.source_fingerprint, timestamp |-> a.timestamp,
     title |-> a.title, metadata_json |-> a.metadata_json]

\* a row written before fingerprinting existed (tests/test_ingest_fingerprinting.py
\* 49-63): no fingerprint, its own timestamp, title and metadata
LegacyRow(id, a, ts) ==
    [id |-> id, source_type |-> a.source_type, source_uri |-> a.source_uri,
     source_fingerprint |-> NULL, timestamp |-> ts,
     title |-> <<"l", "e", "g", "a", "c", "y">>, metadata_json |-> <<"{}">>]

\* d = [a, legacy, ts]: the row with id `id' and the chunks it owns, which
\* are the chunker's output over the text a.text it was ingested from
HistoricRow(id, d) == IF d.legacy THEN LegacyRow(id, d.a, d.ts) ELSE FingerprintedRow(id, d.a)
HistoricChunks(id, d) ==
    ChunkRows(id, chunk_text(d.a.text, WindowOf(d.a)[1], WindowOf(d.a)[2]),
              IF d.legacy THEN <<"{}">> ELSE d.a.chunk_metadata)

HistoricDescriptors ==
    {[a |-> a, legacy |-> FALSE, ts |-> a.timestamp] : a \in Records}
    \cup {[a |-> a, legacy |-> TRUE, ts |-> t] : a \in Records, t \in {NULL, <<1>>, <<2>>}}

\* n rows for one (source_type, source_uri), as ingestions that inserted a
\* row per timestamp left them (notes.py 90): n - 1 legacy rows of earlier
\* timestamps, which UNIQUE(source_type, source_uri, timestamp) wants
\* distinct, and the newest row d
HistoricStore(n, d) ==
    LET desc(i) == IF i = n THEN d ELSE [a |-> d.a, legacy |-> TRUE, ts |-> <<i - n>>]
    IN  DB({HistoricRow(i, desc(i)) : i \in 1..n},
           SetToBag(UNION {HistoricChunks(i, desc(i)) : i \in 1..n}),
           {}, [sources |-> n, queries_eval |-> 0])

InitStores ==
    {EmptyDB} \cup {HistoricStore(n, d) : n \in 1..MaxDup, d \in HistoricDescriptors}

(***************************************************************************)
(* The calls                                                               *)
(***************************************************************************)
Working == DB(sources, evidence_chunks, queries_eval, seq)

SetWorking(db) ==
    /\ sources' = db.sources
    /\ evidence_chunks' = db.evidence_chunks
    /\ queries_eval' = db.queries_eval
    /\ seq' = db.seq

NoItem ==
    [source_type |-> "", source_uri |-> NULL, text |-> NULL, source_fingerprint |-> NULL,
     timestamp |-> NULL, title |-> NULL, metadata_json |-> NULL, chunk_metadata |-> NULL]

\* the frame of a call that has not started or has ended
NoFrame ==
    /\ md_files' = <<>> /\ rows' = <<>> /\ pos' = 0 /\ target' = NULL
    /\ inserted_chunks' = 0 /\ item' = NoItem /\ source_id' = 0 /\ unchanged' = FALSE
    /\ branch' = ""

\* sorted(vault_path.rglob("*.md")): ascending by character
Collation == <<".", "/", "a", "b", "d", "m", "v">>
Rank(c) == CHOOSE i \in 1..Len(Collation) : Collation[i] = c
RECURSIVE PathLess(_, _)
PathLess(p, q) ==
    IF q = <<>> THEN FALSE
    ELSE IF p = <<>> THEN TRUE
    ELSE IF Head(p) = Head(q) THEN PathLess(Tail(p), Tail(q))
    ELSE Rank(Head(p)) < Rank(Head(q))
RECURSIVE Sorted(_)
Sorted(S) ==
    IF S = {} THEN <<>>
    ELSE LET m == CHOOSE p \in S : \A q \in S \ {p} : PathLess(p, q)
         IN  <<m>> \o Sorted(S \ {m})

\* an exception leaves the call: its frame is gone, the connection stays as
\* the call left it
Raise(e) ==
    /\ exc' = e
    /\ pc' = "raised"
    /\ NoFrame
    /\ UNCHANGED <<queryVars, chunkVars, dbVars, committed>>

\* cli.py 35-36, 55-56, 87-88: finally: conn.close() drops what the
\* connection had not committed; the exception goes on to the top level
Close ==
    /\ pc = "raised"
    /\ SetWorking(committed)
    /\ pc' = "idle"
    /\ UNCHANGED <<queryVars, chunkVars, committed, callVarsButPc>>

\* conn.commit() and return
CommitAndReturn ==
    /\ committed' = Working
    /\ pc' = "idle"
    /\ NoFrame
    /\ UNCHANGED <<queryVars, chunkVars, dbVars, exc>>

\* notes.py 13-14: the vault path does not exist
NotesVaultMissing ==
    /\ pc = "idle"
    /\ Raise("FileNotFoundError: vault")

\* notes.py 15-16
NotesBegin ==
    /\ pc = "idle"
    /\ \E files \in SUBSET NotePaths : md_files' = Sorted(files)
    /\ inserted_chunks' = 0
    /\ pos' = 0
    /\ pc' = "notes"
    /\ exc' = ""
    /\ UNCHANGED <<queryVars, chunkVars, dbVars, committed, rows, target, item, source_id, unchanged,
                   branch>>

\* notes.py 18-33: read the file, call the synchronizer, continue if unchanged
NotesSync ==
    /\ pc = "notes"
    /\ pos < Len(md_files)
    /\ \E t \in NoteTexts(md_files[pos + 1]), m \in Mtimes(md_files[pos + 1]) :
         LET a == NoteRecord(md_files[pos + 1], t, m)
             r == upsert_note_source(Working, a)
         IN  /\ r.db.seq.sources <= MaxSourceId
             /\ SetWorking(r.db)
             /\ item' = a
             /\ source_id' = r.source_id
             /\ unchanged' = r.unchanged
             /\ branch' = r.branch
             /\ IF r.unchanged
                THEN pos' = pos + 1 /\ pc' = "notes"
                ELSE pos' = pos /\ pc' = "notes_chunks"
    /\ UNCHANGED <<queryVars, chunkVars, committed, md_files, rows, target, inserted_chunks, exc>>

\* conn.commit() inside the loop
NotesChunksCommitted ==
    /\ pc = "notes_chunks"
    /\ SetWorking(WriteChunks(Working, source_id, item, NoteMaxChars, NoteOverlap))
    /\ committed' = WriteChunks(Working, source_id, item, NoteMaxChars, NoteOverlap)
    /\ inserted_chunks' =
         inserted_chunks + Len(chunk_text(item.text, NoteMaxChars, NoteOverlap))
    /\ pos' = pos + 1
    /\ pc' = "notes"
    /\ UNCHANGED <<queryVars, chunkVars, md_files, rows, target, item, source_id, unchanged, branch,
                   exc>>

\* notes.py 35-44: replace the chunks of the source
NotesChunks ==
    /\ pc = "notes_chunks"
    /\ SetWorking(WriteChunks(Working, source_id, item, NoteMaxChars, NoteOverlap))
    /\ inserted_chunks' =
         inserted_chunks + Len(chunk_text(item.text, NoteMaxChars, NoteOverlap))
    /\ pos' = pos + 1
    /\ pc' = "notes"
    /\ UNCHANGED <<queryVars, chunkVars, committed, md_files, rows, target, item, source_id, unchanged,
                   branch, exc>>

\* notes.py 18-19: read_text or stat raises (the file is gone since rglob)
NotesReadFails ==
    /\ pc = "notes"
    /\ pos < Len(md_files)
    /\ Raise("OSError: read_text")

\* notes.py 45-46
NotesCommit ==
    /\ pc = "notes"
    /\ pos = Len(md_files)
    /\ CommitAndReturn

\* git.py 14-15: no .git under the repository path
GitNotARepository ==
    /\ pc = "idle"
    /\ Raise("FileNotFoundError: not a git repository")

\* the target author looked up only once a commit has been through
TargetAuthorLoadedLate ==
    /\ pc = "git"
    /\ pos > 0
    /\ Raise("ValueError: target author")

\* git.py 17: _load_target_author raises
GitNoTargetAuthor ==
    /\ pc = "idle"
    /\ \E n \in EnvNames, e \in EnvEmails : load_target_author(n, e) = NULL
    /\ Raise("ValueError: target author")

\* git.py 18: git log or a git show exits non-zero (subprocess.run, check=True)
GitSubprocessFails ==
    /\ pc = "idle"
    /\ \E n \in EnvNames, e \in EnvEmails : load_target_author(n, e) # NULL
    /\ Raise("CalledProcessError")

\* git.py 17-19
GitBegin ==
    /\ pc = "idle"
    /\ \E n \in EnvNames, e \in EnvEmails :
         /\ load_target_author(n, e) # NULL
         /\ target' = load_target_author(n, e)
    /\ rows' \in GitLogs
    /\ inserted_chunks' = 0
    /\ pos' = 0
    /\ pc' = "git"
    /\ exc' = ""
    /\ UNCHANGED <<queryVars, chunkVars, dbVars, committed, md_files, item, source_id, unchanged,
                   branch>>

\* git.py 21-45: the authorship test, then the synchronizer, continue if unchanged
GitSync ==
    /\ pc = "git"
    /\ pos < Len(rows)
    /\ LET row == rows[pos + 1]
           a   == GitRecord(row)
       IN  /\ item' = a
           /\ IF AuthorMismatch(row, target)
              THEN /\ SetWorking(delete_source_and_chunks(Working, a.source_uri))
                   /\ source_id' = 0
                   /\ unchanged' = FALSE
                   /\ branch' = "author_mismatch"
                   /\ pos' = pos + 1
                   /\ pc' = "git"
              ELSE LET r == upsert_git_source(Working, a)
                   IN  /\ r.db.seq.sources <= MaxSourceId
                       /\ SetWorking(r.db)
                       /\ source_id' = r.source_id
                       /\ unchanged' = r.unchanged
                       /\ branch' = r.branch
                       /\ IF r.unchanged
                          THEN pos' = pos + 1 /\ pc' = "git"
                          ELSE pos' = pos /\ pc' = "git_chunks"
    /\ UNCHANGED <<queryVars, chunkVars, committed, md_files, rows, target, inserted_chunks, exc>>

\* git.py 47-69: replace the chunks of the source
GitChunks ==
    /\ pc = "git_chunks"
    /\ SetWorking(WriteChunks(Working, source_id, item, GitMaxChars, GitOverlap))
    /\ inserted_chunks' =
         inserted_chunks + Len(chunk_text(item.text, GitMaxChars, GitOverlap))
    /\ pos' = pos + 1
    /\ pc' = "git"
    /\ UNCHANGED <<queryVars, chunkVars, committed, md_files, rows, target, item, source_id, unchanged,
                   branch, exc>>

\* git.py 70-71
GitCommit ==
    /\ pc = "git"
    /\ pos = Len(rows)
    /\ CommitAndReturn

\* notes.py 35, git.py 47: conn.execute raises (the database is locked by
\* another connection, the disk is full) once the synchronizer has returned
StoreFails ==
    /\ pc \in {"notes_chunks", "git_chunks"}
    /\ Raise("OperationalError")

\* cli.py 83-84 with evaluation.py 111-128: the query file is malformed
EvalLoadFails ==
    /\ pc = "idle"
    /\ \E raw \in EvalFiles : load_eval_queries_file(raw).error # 0
    /\ Raise("ValueError: eval file")

\* cli.py 83-85 with evaluation.py 131-166: load, upsert, commit
EvalLoadAndUpsert ==
    /\ pc = "idle"
    /\ \E raw \in EvalFiles :
         /\ load_eval_queries_file(raw).error = 0
         /\ LET db == upsert_eval_queries(Working, load_eval_queries_file(raw).queries)
            IN  /\ SetWorking(db)
                /\ committed' = db
    /\ exc' = ""
    /\ UNCHANGED <<queryVars, chunkVars, pc, md_files, rows, pos, target, inserted_chunks, item,
                   source_id, unchanged, branch>>

InitChunkerIdle ==
    /\ text = <<>> /\ max_chars = 0 /\ overlap = 0 /\ cleaned = <<>>
    /\ chunks = <<>> /\ start = 0 /\ end = 0 /\ cpc = "done"

InitNoCall ==
    /\ pc = "idle" /\ md_files = <<>> /\ rows = <<>> /\ pos = 0 /\ target = NULL
    /\ inserted_chunks = 0 /\ item = NoItem /\ source_id = 0 /\ unchanged = FALSE
    /\ branch = "" /\ exc = ""

\* no scoring, retrieval or evaluation call has started
InitNoScore == q_tokens = <<>> /\ d_tokens = <<>> /\ lex = NULL /\ lpc = "idle"
InitNoAsk ==
    /\ query = <<>> /\ top_k = 0 /\ now = 0 /\ fetched = <<>> /\ selected = FALSE
    /\ scored = <<>> /\ hits = <<>> /\ rpc = "idle"
InitNoEval == eval_queries = <<>> /\ results = <<>> /\ summary = NULL /\ epc = "idle"
InitNoUpsert == submitted = <<>>
InitNoParse == raw_uris = NULL /\ parsed_uris = NULL /\ ppc = "idle"
InitNoPurge == workspace_dir = NULL /\ purge_result = NULL
InitNoTool == InitNoUpsert /\ InitNoParse /\ InitNoPurge
InitNoQuery == InitNoScore /\ InitNoAsk /\ InitNoEval /\ InitNoTool

InitStore(db) ==
    /\ sources = db.sources
    /\ evidence_chunks = db.evidence_chunks
    /\ queries_eval = db.queries_eval
    /\ seq = db.seq
    /\ committed = db

\* ingestion calls, one after the other, on a store with history
Init ==
    /\ InitChunkerIdle
    /\ \E db \in InitStores : InitStore(db)
    /\ InitNoCall
    /\ InitNoQuery

Next ==
    \/ NotesVaultMissing \/ NotesBegin \/ NotesSync \/ NotesChunks \/ NotesReadFails
    \/ NotesCommit
    \/ GitNotARepository \/ GitNoTargetAuthor \/ GitSubprocessFails \/ GitBegin
    \/ GitSync \/ GitChunks \/ GitCommit
    \/ StoreFails
    \/ Close

Spec == Init /\ [][Next]_vars

\* the three commands of cli.py, one after the other, on a new database
InitCli ==
    /\ InitChunkerIdle
    /\ InitStore(EmptyDB)
    /\ InitNoCall
    /\ InitNoQuery

NextCli == Next \/ EvalLoadFails \/ EvalLoadAndUpsert

SpecCli == InitCli /\ [][NextCli]_vars

(***************************************************************************)
(* Python float: IEEE 754 binary64, round to nearest, ties to even.        *)
(* A natural number of any size is a little-endian sequence of Limbs       *)
(* digits in base Radix; a finite non-negative float is [m, e], standing   *)
(* for m * 2^e with 2^52 <= m < 2^53, or for 0 when m = 0 (then e = 0).    *)
(* Exponents stay far inside binary64's range for every value computed     *)
(* here, so overflow, underflow and subnormals do not arise.               *)
(***************************************************************************)
RadixBits == 13
Radix     == 2^RadixBits
Limbs     == 12
Precision == 53

BigZero == [i \in 1..Limbs |-> 0]

\* the natural number n < 2^31
BigOfNat(n) ==
    [i \in 1..Limbs |->
        IF i = 1 THEN n % Radix
        ELSE IF i = 2 THEN (n \div Radix) % Radix
        ELSE IF i = 3 THEN (n \div Radix) \div Radix
        ELSE 0]

\* digits in 0..Radix-1 from the column values cols[i], cols[i + 1], ...,
\* the carry (or borrow) c coming in from below
RECURSIVE BigCarry(_, _, _)
BigCarry(cols, i, c) ==
    IF i > Limbs THEN <<>>
    ELSE <<(cols[i] + c) % Radix>> \o BigCarry(cols, i + 1, (cols[i] + c) \div Radix)

BigAdd(a, b) == BigCarry([i \in 1..Limbs |-> a[i] + b[i]], 1, 0)

\* a - b for a >= b
BigSub(a, b) == BigCarry([i \in 1..Limbs |-> a[i] - b[i]], 1, 0)

RECURSIVE BigColumn(_, _, _, _)
BigColumn(a, b, k, i) ==
    IF i > k THEN 0 ELSE a[i] * b[k + 1 - i] + BigColumn(a, b, k, i + 1)

\* a * b for a * b < Radix^Limbs
BigMul(a, b) == BigCarry([k \in 1..Limbs |-> BigColumn(a, b, k, 1)], 1, 0)

\* a <= b, decided at the highest digit where they differ
BigLeq(a, b) ==
    LET diff == {i \in 1..Limbs : a[i] # b[i]}
    IN  diff = {} \/ LET top == CHOOSE i \in diff : \A j \in diff : j <= i
                     IN  a[top] < b[top]

BigDigit(a, i) == IF i \in 1..Limbs THEN a[i] ELSE 0

\* a * 2^k for a * 2^k < Radix^Limbs
BigShl(a, k) ==
    LET q == k \div RadixBits
        r == k % RadixBits
    IN  [i \in 1..Limbs |->
            (BigDigit(a, i - q) % 2^(RadixBits - r)) * 2^r
            + BigDigit(a, i - q - 1) \div 2^(RadixBits - r)]

\* a \div 2^k
BigShr(a, k) ==
    LET q == k \div RadixBits
        r == k % RadixBits
    IN  [i \in 1..Limbs |->
            BigDigit(a, i + q) \div 2^r
            + (BigDigit(a, i + q + 1) % 2^r) * 2^(RadixBits - r)]

BigPow2(k) == BigShl(BigOfNat(1), k)

\* a \div k for 0 < k < 2^17, from the top digit down
RECURSIVE BigDivSmall(_, _, _, _)
BigDivSmall(a, k, i, rem) ==
    IF i = 0 THEN <<>>
    ELSE Append(BigDivSmall(a, k, i - 1, (rem * Radix + a[i]) % k),
                (rem * Radix + a[i]) \div k)

\* number of binary digits of a
BigBitLen(a) ==
    LET nz == {i \in 1..Limbs : a[i] # 0}
    IN  IF nz = {} THEN 0
        ELSE LET top == CHOOSE i \in nz : \A j \in nz : j <= i
                 len == CHOOSE l \in 1..RadixBits : 2^(l - 1) <= a[top] /\ a[top] < 2^l
             IN  (top - 1) * RadixBits + len

FZero == [m |-> BigZero, e |-> 0]

\* the float nearest to n * 2^e (plus a little, if sticky) for a natural n
\* that, when anything was discarded, has at least Precision + 2 digits
FRound(n, sticky, e) ==
    LET len == BigBitLen(n)
    IN  IF len = 0 THEN FZero
        ELSE IF len <= Precision
        THEN [m |-> BigShl(n, Precision - len), e |-> e - (Precision - len)]
        ELSE LET k    == len - Precision
                 q    == BigShr(n, k)
                 rem  == BigSub(n, BigShl(q, k))
                 half == BigPow2(k - 1)
                 up   == IF rem = half THEN sticky \/ q[1] % 2 = 1
                         ELSE ~BigLeq(rem, half)
                 q1   == IF up THEN BigAdd(q, BigOfNat(1)) ELSE q
             IN  IF q1 = BigPow2(Precision)
                 THEN [m |-> BigPow2(Precision - 1), e |-> e + k + 1]
                 ELSE [m |-> q1, e |-> e + k]

\* float(n) for an int n
FOfNat(n) == FRound(BigOfNat(n), FALSE, 0)

FOne == FOfNat(1)

\* a <= b
FLeq(a, b) ==
    IF a.m = BigZero THEN TRUE
    ELSE IF b.m = BigZero THEN FALSE
    ELSE a.e < b.e \/ (a.e = b.e /\ BigLeq(a.m, b.m))

FLess(a, b) == ~FLeq(b, a)

\* a * b
FMul(a, b) ==
    IF a.m = BigZero \/ b.m = BigZero THEN FZero
    ELSE FRound(BigMul(a.m, b.m), FALSE, a.e + b.e)

\* a + b
FAdd(a, b) ==
    IF a.m = BigZero THEN b
    ELSE IF b.m = BigZero THEN a
    ELSE LET hi == IF a.e >= b.e THEN a ELSE b
             lo == IF a.e >= b.e THEN b ELSE a
             d  == hi.e - lo.e
         IN  IF d > Precision + 2
             THEN FRound(BigShl(hi.m, 2), TRUE, hi.e - 2)
             ELSE FRound(BigAdd(BigShl(hi.m, d), lo.m), FALSE, lo.e)

\* one more binary digit of a quotient by d: s = <<q, rem>>, the digits
\* so far and the remainder they leave, with rem < d
FDivStep(s, d) ==
    LET r2 == BigAdd(s[2], s[2])
        q2 == BigAdd(s[1], s[1])
    IN  IF BigLeq(d, r2) THEN <<BigAdd(q2, BigOfNat(1)), BigSub(r2, d)>> ELSE <<q2, r2>>

\* k more binary digits, the first half of them and then the others;
\* once nothing remains, every further digit is 0
RECURSIVE FDivDigits(_, _, _)
FDivDigits(s, d, k) ==
    IF s[2] = BigZero THEN <<BigAdd(BigShl(s[1], k), BigZero), s[2]>>
    ELSE IF k = 1 THEN FDivStep(s, d)
    ELSE FDivDigits(FDivDigits(s, d, k \div 2), d, k - k \div 2)

\* a / b for b # 0
FDiv(a, b) ==
    IF a.m = BigZero THEN FZero
    ELSE LET q0 == BigLeq(b.m, a.m)
             qr == FDivDigits(IF q0 THEN <<BigAdd(BigZero, BigOfNat(1)), BigSub(a.m, b.m)>>
                              ELSE <<BigAdd(BigZero, BigZero), BigAdd(a.m, BigZero)>>,
                              b.m, Precision + 3)
         IN  FRound(qr[1], qr[2] # BigZero, a.e - b.e - (Precision + 3))

\* binary digit k of an integer square root: s = <<r, rem>>, the root so
\* far and what is left of the radicand
FSqrtStep(s, k) ==
    LET t == BigAdd(BigShl(s[1], k + 1), BigPow2(2 * k))
    IN  IF BigLeq(t, s[2]) THEN <<BigAdd(s[1], BigPow2(k)), BigSub(s[2], t)>> ELSE s

\* the binary digits hi down to lo, the upper half of them and then the
\* lower; once nothing remains, every further digit is 0
RECURSIVE FSqrtDigits(_, _, _)
FSqrtDigits(s, hi, lo) ==
    IF s[2] = BigZero THEN s
    ELSE IF hi = lo THEN FSqrtStep(s, hi)
    ELSE FSqrtDigits(FSqrtDigits(s, hi, (hi + lo) \div 2 + 1), (hi + lo) \div 2, lo)

\* math.sqrt(a)
FSqrt(a) ==
    IF a.m = BigZero THEN FZero
    ELSE LET odd == a.e % 2 = 1
             n   == BigShl(a.m, IF odd THEN 59 ELSE 58)
             e   == (IF odd THEN a.e - 1 ELSE a.e) - 58
             rr  == FSqrtDigits(<<BigAdd(BigZero, BigZero), BigAdd(n, BigZero)>>, 55, 0)
         IN  FRound(rr[1], rr[2] # BigZero, e \div 2)

\* the term of index k of the power series of exp(-y), in units of 2^-72:
\* s = <<t, even, odd>>, the term of index k - 1, the sum of the terms of
\* even index from 2 on and the sum of those of odd index
FExpStep(s, y, k) ==
    IF s[1] = BigZero THEN s
    ELSE LET t2 == BigDivSmall(BigShr(BigMul(s[1], y), 72), k, Limbs, 0)
         IN  IF k % 2 = 1 THEN <<t2, s[2], BigAdd(s[3], t2)>>
             ELSE <<t2, BigAdd(s[2], t2), s[3]>>

\* the terms of index lo to hi, the lower half of them and then the
\* upper; after a term that is 0 every term is 0
RECURSIVE FExpSteps(_, _, _, _)
FExpSteps(s, y, lo, hi) ==
    IF s[1] = BigZero THEN s
    ELSE IF lo = hi THEN FExpStep(s, y, lo)
    ELSE FExpSteps(FExpSteps(s, y, lo, (lo + hi) \div 2), y, (lo + hi) \div 2 + 1, hi)

\* math.exp(-a) for 0 <= a < 4, from its power series summed to 2^-66:
\* no term of index above 48 is as large as 2^-72
FExpNeg(a) ==
    IF a.m = BigZero THEN FOne
    ELSE LET y  == IF a.e + 72 >= 0 THEN BigShl(a.m, a.e + 72) ELSE BigShr(a.m, -(a.e + 72))
             eo == FExpSteps(<<BigAdd(BigPow2(72), BigZero), BigAdd(BigZero, BigZero),
                               BigAdd(BigZero, BigZero)>>,
                             BigAdd(y, BigZero), 1, 48)
         IN  FRound(BigSub(BigAdd(BigPow2(72), eo[2]), eo[3]), TRUE, -72)

(***************************************************************************)
(* retrieve/lexical.py: tokenize, lexical_overlap_score, recency_score     *)
(***************************************************************************)
LowerCase ==
    <<"a", "b", "c", "d", "e", "f", "g", "h", "i", "j", "k", "l", "m", "n", "o", "p",
      "q", "r", "s", "t", "u", "v", "w", "x", "y", "z">>
UpperCase ==
    <<"A", "B", "C", "D", "E", "F", "G", "H", "I", "J", "K", "L", "M", "N", "O", "P",
      "Q", "R", "S", "T", "U", "V", "W", "X", "Y", "Z">>
Digits == {"0", "1", "2", "3", "4", "5", "6", "7", "8", "9"}

\* the class with the blank in it
WordCharsAndBlank ==
    {LowerCase[i] : i \in 1..26} \cup {UpperCase[i] : i \in 1..26} \cup Digits \cup {"_", " "}

\* line 11: the characters of WORD_RE's class [a-zA-Z0-9_]
WordChars ==
    {LowerCase[i] : i \in 1..26} \cup {UpperCase[i] : i \in 1..26} \cup Digits \cup {"_"}

\* str.lower() of one character of a word
Lower(c) ==
    IF \E i \in 1..26 : UpperCase[i] = c
    THEN LowerCase[CHOOSE i \in 1..26 : UpperCase[i] = c]
    ELSE c

\* the matches of WORD_RE.finditer in s from position i on, lower-cased;
\* word is the match that position i - 1 has not yet ended
RECURSIVE WordMatches(_, _, _)
WordMatches(s, i, word) ==
    IF i > Len(s) THEN (IF word = <<>> THEN <<>> ELSE <<word>>)
    ELSE IF s[i] \in WordChars THEN WordMatches(s, i + 1, Append(word, Lower(s[i])))
    ELSE (IF word = <<>> THEN <<>> ELSE <<word>>) \o WordMatches(s, i + 1, <<>>)

\* lines 80-81
tokenize(s) == WordMatches(s, 1, <<>>)

\* collections.Counter(tokens): a missing key counts 0
Counter(tokens) ==
    [t \in {tokens[i] : i \in 1..Len(tokens)} |->
        Cardinality({i \in 1..Len(tokens) : tokens[i] = t})]

\* sum(f[t] for t in keys), in any order (the summands are ints)
RECURSIVE SumOver(_, _)
SumOver(f, keys) ==
    IF keys = {} THEN 0
    ELSE LET t == CHOOSE k \in keys : TRUE IN f[t] + SumOver(f, keys \ {t})

\* lines 88-95: the cosine of the two count vectors
CosineOfCounts(query_tokens, doc_tokens) ==
    LET q      == Counter(query_tokens)
        d      == Counter(doc_tokens)
        dot    == SumOver([t \in DOMAIN q |-> q[t] * (IF t \in DOMAIN d THEN d[t] ELSE 0)],
                          DOMAIN q)
        q_norm == FSqrt(FOfNat(SumOver([t \in DOMAIN q |-> q[t] * q[t]], DOMAIN q)))
        d_norm == FSqrt(FOfNat(SumOver([t \in DOMAIN d |-> d[t] * d[t]], DOMAIN d)))
    IN  IF q_norm = FZero \/ d_norm = FZero THEN FZero
        ELSE FDiv(FOfNat(dot), FMul(q_norm, d_norm))

\* lines 84-95
lexical_overlap_score(query_tokens, doc_tokens) ==
    IF query_tokens = <<>> \/ doc_tokens = <<>> THEN FZero
    ELSE CosineOfCounts(query_tokens, doc_tokens)

\* the questions asked: empty, blank, without a word character, of two
\* words, of one word
AskQueries == {<<>>, <<" ">>, <<"?", " ">>, <<"A", " ", "b">>, <<"a">>, <<"c">>}

\* the notes the questions are asked about, their modification times and
\* the instants they are asked at, in ticks
AskTexts(path) ==
    IF path = PathA THEN {<<"a", " ", "b">>, <<"a", " ", "a", " ", "a">>}
    ELSE {<<"a", " ", "B">>, <<"c">>}
AskMtimes == {1, 2, 4}
AskNows == {3, 5}
TopKs == (-MaxTopK)..MaxTopK

\* the stores ingest_notes leaves for a vault of at most the two notes
AskRecords(path) == {NoteRecord(path, t, m) : t \in AskTexts(path), m \in AskMtimes}
AskStores ==
    LET first == {EmptyDB} \cup {ingest_record(EmptyDB, a).db : a \in AskRecords(PathA)}
    IN  first \cup {ingest_record(db, b).db : db \in first, b \in AskRecords(PathB)}

\* whether datetime.fromisoformat accepts the text: iso_mtime and git's %aI
\* write <<n>>, the ISO text of instant n; a text of any other shape is
\* rejected with ValueError
IsIsoFormat(timestamp) == Len(timestamp) = 1

\* the score growing with the age
ExpGrowth(days_old) == FDiv(FOfNat(45 + days_old), FOfNat(45))

\* line 106: math.exp(-days_old / 45.0)
ExpDecay(days_old) == FExpNeg(FDiv(FOfNat(days_old), FOfNat(45)))

\* lines 98-108; t is now
recency_score(timestamp, t) ==
    IF timestamp = NULL THEN FZero
    ELSE IF ~IsIsoFormat(timestamp) THEN FZero
    ELSE ExpDecay(Max((t - timestamp[1]) \div TicksPerDay, 0))

\* the literals 0.85 and 0.15 of line 59, as Python reads them
LexicalWeight == FDiv(FOfNat(85), FOfNat(100))
RecencyWeight == FDiv(FOfNat(15), FOfNat(100))

\* line 59: score = (0.85 * lex) + (0.15 * recency)
CombinedScore(lx, recency) ==
    FAdd(FMul(LexicalWeight, lx), FMul(RecencyWeight, recency))

\* lines 54, 58 and 59 for one row: lex, recency and score (the code
\* leaves the last two uncomputed for a row the loop skips)
ScoresOf(lx, recency) ==
    [lexical_score |-> lx, recency_score |-> recency,
     score |-> CombinedScore(lx, recency)]

\* lines 54 and 58: lexical_overlap_score and recency_score of the row
RowScores(qt, dt, timestamp, t) ==
    ScoresOf(lexical_overlap_score(qt, dt), recency_score(timestamp, t))

\* those lines for every question, chunk, timestamp and instant of the
\* stores above, computed once
KnownRowScores ==
    LET qts == {tokenize(q) : q \in AskQueries}
        dts == {tokenize(c.chunk_text) :
                   c \in UNION {BagToSet(db.evidence_chunks) : db \in AskStores}}
        tss == {iso_mtime(m) : m \in AskMtimes}
    IN  {[key |-> p, scores |-> RowScores(p[1], p[2], p[3], p[4])] :
            p \in qts \X dts \X tss \X AskNows}

\* the scores of one row, read off that table
RowScoresOf(qt, dt, timestamp, t) ==
    (CHOOSE r \in KnownRowScores : r.key = <<qt, dt, timestamp, t>>).scores

\* every chunk kept, whatever its lexical score
KeepsAll(lx) == FALSE

\* line 55: if lex <= 0: continue
SkipsChunk(lx) == FLeq(lx, FZero)

\* lines 60-74: the RetrievalHit of a row (chunk_id, which the store of the
\* model does not hold, left out)
RetrievalHit(row, sc) ==
    [source_id |-> row.source_id, source_type |-> row.source_type,
     source_uri |-> row.source_uri, source_timestamp |-> row.source_timestamp,
     title |-> row.title, chunk_index |-> row.chunk_index, chunk_text |-> row.chunk_text,
     score |-> sc.score, lexical_score |-> sc.lexical_score,
     recency_score |-> sc.recency_score]

\* lines 34-48: a row of the SELECT, chunk c joined with its source s
JoinRow(c, s) ==
    [source_id |-> c.source_id, chunk_index |-> c.chunk_index, chunk_text |-> c.chunk_text,
     source_type |-> s.source_type, source_uri |-> s.source_uri,
     source_timestamp |-> s.timestamp, title |-> s.title]

\* every order in which the elements of a bag can come
RECURSIVE BagOrders(_)
BagOrders(B) ==
    IF BagToSet(B) = {} THEN {<<>>}
    ELSE UNION {{<<x>> \o rest : rest \in BagOrders(B (-) SetToBag({x}))} : x \in BagToSet(B)}

\* lines 34-48: what fetchall() can give: the chunks that have a source,
\* each joined with it, in an order the statement leaves to SQLite
ScanOrders(db) ==
    LET owned == {c \in BagToSet(db.evidence_chunks) :
                     \E s \in db.sources : s.id = c.source_id}
        bag   == [c \in owned |-> db.evidence_chunks[c]]
        src(c) == CHOOSE s \in db.sources : s.id = c.source_id
    IN  {[i \in 1..Len(o) |-> JoinRow(o[i], src(o[i]))] : o \in BagOrders(bag)}

\* lines 55-74 for one row with its scores sc: skipped, or appended
ScoredRow(row, sc) ==
    IF SkipsChunk(sc.lexical_score) THEN <<>> ELSE <<RetrievalHit(row, sc)>>

\* lines 52-74: the loop over the rows from position i on; qt is
\* query_tokens, t is now
RECURSIVE ScoreRows(_, _, _, _)
ScoreRows(fetch, i, qt, t) ==
    IF i > Len(fetch) THEN <<>>
    ELSE ScoredRow(fetch[i], RowScoresOf(qt, tokenize(fetch[i].chunk_text),
                                         fetch[i].source_timestamp, t))
         \o ScoreRows(fetch, i + 1, qt, t)

\* where a stable sort on descending score puts a hit that comes after
\* the ones of sorted: behind every hit whose score is not below its own
InsertByScore(sorted, h) ==
    LET n == Cardinality({i \in 1..Len(sorted) : FLeq(h.score, sorted[i].score)})
    IN  SubSeq(sorted, 1, n) \o <<h>> \o SubSeq(sorted, n + 1, Len(sorted))

\* line 76: scored.sort(key=lambda hit: hit.score, reverse=True)
RECURSIVE SortByScore(_)
SortByScore(hs) ==
    IF hs = <<>> THEN <<>>
    ELSE InsertByScore(SortByScore(SubSeq(hs, 1, Len(hs) - 1)), hs[Len(hs)])

\* line 77: scored[:top_k]; a negative stop counts from the end
SliceFromStart(seq_, k) ==
    IF k >= 0 THEN SubSeq(seq_, 1, Min(k, Len(seq_)))
    ELSE SubSeq(seq_, 1, Max(Len(seq_) + k, 0))

\* lines 50-76: the scored list, sorted
ScoredRows(fetch, qt, t) ==
    SortByScore(ScoreRows(fetch, 1, qt, t))

\* lines 29-77: retrieve, given what the SELECT would fetch and the clock
retrieve(fetch, q, k, t) ==
    IF tokenize(q) = <<>> THEN <<>>
    ELSE SliceFromStart(ScoredRows(fetch, tokenize(q), t), k)

(***************************************************************************)
(* chunking.py: chunk_text step by step                                    *)
(***************************************************************************)
\* the texts and windows chunk_text is called with
ChunkAlphabet == {"a", "b", " "}
ChunkTexts    == SeqsUpTo(ChunkAlphabet, MaxTextLen)
ChunkWindows  == {<<mc, ov>> \in (1..MaxWindow) \X (0..MaxWindow) : ov < mc}

InitChunk ==
    /\ text \in ChunkTexts
    /\ \E w \in ChunkWindows : max_chars = w[1] /\ overlap = w[2]
    /\ cleaned = <<>> /\ chunks = <<>> /\ start = 0 /\ end = 0 /\ cpc = "entry"
    /\ InitStore(EmptyDB)
    /\ InitNoCall
    /\ InitNoQuery

\* lines 7-13: strip, the two early returns, the loop's initial values
ChunkEntry ==
    /\ cpc = "entry"
    /\ cleaned' = Strip(text)
    /\ IF Strip(text) = <<>>
       THEN chunks' = <<>> /\ cpc' = "done"
       ELSE IF Len(Strip(text)) <= max_chars
       THEN chunks' = <<Strip(text)>> /\ cpc' = "done"
       ELSE chunks' = <<>> /\ cpc' = "loop"
    /\ start' = 0
    /\ UNCHANGED <<queryVars, text, max_chars, overlap, end, dbVars, committed, callVars>>

\* lines 14-19: the loop test and one pass through the body
ChunkIter ==
    /\ cpc = "loop"
    /\ IF ~(start < Len(cleaned))
       THEN cpc' = "done" /\ UNCHANGED <<chunks, start, end>>
       ELSE /\ end' = WindowEnd(start, max_chars, cleaned)
            /\ chunks' = Append(chunks, Slice(cleaned, start, end'))
            /\ IF end' = Len(cleaned)
               THEN cpc' = "done" /\ start' = start
               ELSE cpc' = "loop" /\ start' = NextStart(end', overlap)
    /\ UNCHANGED <<queryVars, text, max_chars, overlap, cleaned, dbVars, committed, callVars>>

NextChunk == ChunkEntry \/ ChunkIter

SpecChunk == InitChunk /\ [][NextChunk]_vars /\ WF_vars(NextChunk)

\* C10: for every text and every window with 0 <= overlap < max_chars,
\* chunk_text returns; every pass through the loop body emits one chunk; the
\* pass is the last exactly when its window end is the length of the trimmed
\* text, and otherwise it moves start strictly forward; the chunk of the
\* last pass runs to the end of the text, and nothing is emitted after it.
C10_ChunkerTerminates ==
    /\ <>(cpc = "done")
    /\ [][cpc = "loop" =>
            /\ start < Len(cleaned)
            /\ chunks' = Append(chunks, Slice(cleaned, start, end'))
            /\ (cpc' = "done") <=> (end' = Len(cleaned))
            /\ (cpc' = "loop") => start' > start]_vars
    /\ [][cpc = "done" => chunks' = chunks /\ cpc' = "done"]_vars

\* a call that went three times through the loop with a real overlap
C10_Witness ==
    cpc = "done" /\ Len(chunks) = 3 /\ overlap > 0 /\ end = Len(cleaned) /\ start > 0

\* tests/test_chunking.py 10: a uniform text of 200 characters
LargeText == [i \in 1..200 |-> "a"]

\* where chunk i of the list cs starts in the trimmed text, if every chunk
\* starts ov characters before the end of the one before it
RECURSIVE ChunkOffset(_, _, _)
ChunkOffset(cs, ov, i) ==
    IF i = 1 THEN 0 ELSE ChunkOffset(cs, ov, i - 1) + Len(cs[i - 1]) - ov

\* C11: for every text and 0 <= overlap < max_chars, chunk_text returns no
\* chunk when the trimmed text is empty, the trimmed text as the only chunk
\* when it is at most max_chars long, and otherwise chunks that are
\* contiguous slices of at most max_chars characters, the first at position
\* 0, each next one starting exactly overlap characters before the end of
\* the one before, and together covering every position of the trimmed
\* text; 200 characters with window 80 / 10 give at least 3 chunks.
C11_ChunkerShape ==
    cpc = "done" =>
        LET cl  == Strip(text)
            off(i) == ChunkOffset(chunks, overlap, i)
        IN  /\ chunks = chunk_text(text, max_chars, overlap)
            /\ cl = <<>> => chunks = <<>>
            /\ (cl # <<>> /\ Len(cl) <= max_chars) => chunks = <<cl>>
            /\ Len(cl) > max_chars =>
                  /\ Len(chunks) >= 2
                  /\ \A i \in 1..Len(chunks) :
                        /\ Len(chunks[i]) \in 1..max_chars
                        /\ off(i) >= 0
                        /\ off(i) + Len(chunks[i]) <= Len(cl)
                        /\ chunks[i] = SubSeq(cl, off(i) + 1, off(i) + Len(chunks[i]))
                  /\ \A p \in 1..Len(cl) :
                        \E i \in 1..Len(chunks) : off(i) < p /\ p <= off(i) + Len(chunks[i])
            /\ Len(chunk_text(LargeText, 80, 10)) >= 3
            /\ \A i \in 1..Len(chunk_text(LargeText, 80, 10)) :
                  Len(chunk_text(LargeText, 80, 10)[i]) <= 80

\* a text with blanks around it that is cut into three overlapping chunks
C11_Witness ==
    /\ cpc = "done"
    /\ Strip(text) # text
    /\ Len(chunks) = 3
    /\ overlap = 2

(***************************************************************************)
(* Properties of the synchronizer and of the ingestion calls               *)
(***************************************************************************)
\* the rows of one (source_type, source_uri)
SourcesOf(db, type, uri) ==
    {r \in db.sources : r.source_type = type /\ r.source_uri = uri}

\* the rows the synchronizer's SELECT finds for the record of this step
Found == SelectSources(Working, item'.source_type, item'.source_uri)

\* this step is a call of _upsert_note_source or _upsert_git_source
Synced ==
    \/ pc = "notes" /\ pc' \in {"notes", "notes_chunks"}
    \/ pc = "git" /\ pc' \in {"git", "git_chunks"} /\ branch' # "author_mismatch"

\* this step replaces the chunks of a source
ChunkStep == pc \in {"notes_chunks", "git_chunks"} /\ pc' \in {"notes", "git"}

\* at the head of the loop, the last iteration has synchronized record `item'
\* and, if it had to, replaced the chunks
IngestedItem == pc \in {"notes", "git"} /\ pos > 0 /\ branch # "author_mismatch"

\* the synchronizer has returned for record `item'
SyncedItem == IngestedItem \/ pc \in {"notes_chunks", "git_chunks"}

\* the chunk texts of a source in chunk_index order; a single empty chunk,
\* which the chunker never emits, if the indexes are not 0..n-1, each once
ChunkSeq(db, sid) ==
    LET own == {c \in DOMAIN db.evidence_chunks : c.source_id = sid}
        n   == Cardinality(own)
    IN  IF \A i \in 0..(n - 1) :
              \E c \in own : c.chunk_index = i /\ db.evidence_chunks[c] = 1
        THEN [i \in 1..n |-> (CHOOSE c \in own : c.chunk_index = i - 1).chunk_text]
        ELSE << <<>> >>

\* C1: once the synchronizer has returned for a record, the store holds
\* exactly one row of the record's (source_type, source_uri), however many
\* it held before; this is so after every call of every sequence of calls.
C1_OneCanonicalRow ==
    SyncedItem =>
        Cardinality(SourcesOf(Working, item.source_type, item.source_uri)) = 1

\* the call found two rows of the pair and left one
C1_Witness ==
    /\ SyncedItem
    /\ Cardinality(SourcesOf(committed, item.source_type, item.source_uri)) = 2
    /\ Cardinality(SourcesOf(Working, item.source_type, item.source_uri)) = 1
    /\ branch = "changed"

\* C2: for every store an ingestion of a record has left, ingesting the
\* same record once more judges it unchanged, inserts no chunk row and
\* leaves every table as the first ingestion left it.
C2_Idempotent ==
    IngestedItem =>
        LET again == ingest_record(Working, item)
        IN  /\ again.unchanged
            /\ again.inserted = 0
            /\ again.source_id = source_id
            /\ again.db = Working

\* the first ingestion replaced the chunks of a row it found
C2_Witness ==
    /\ IngestedItem
    /\ branch = "changed"
    /\ inserted_chunks >= 2
    /\ ingest_record(Working, item).db = Working

\* the row with id sid
RowOf(db, sid) == CHOOSE r \in db.sources : r.id = sid

C5_DuplicateCollapse ==
    [][(Synced /\ Len(Found) >= 2)
          => LET top   == Found[Len(Found)].id
                 lower == {Found[i].id : i \in 1..(Len(Found) - 1)}
             IN  /\ \A i \in 1..Len(Found) : Found[i].id <= top
                 /\ source_id' = top
                 /\ {r.id : r \in SourcesOf(Working', item'.source_type,
                                            item'.source_uri)} = {top}
                 /\ \A r \in Working'.sources : r.id \notin lower
                 /\ \A c \in DOMAIN Working'.evidence_chunks : c.source_id \notin lower
                 /\ ChunksOf(Working', top) = ChunksOf(Working, top)
                 /\ branch' \in {"unchanged", "backfill", "changed"}]_vars

\* two rows with chunks were found, the record was judged unchanged, and the
\* older row and its chunks are gone
C5_Witness ==
    /\ IngestedItem
    /\ unchanged
    /\ source_id = 2
    /\ {r.id : r \in SourcesOf(committed, item.source_type, item.source_uri)} = {1, 2}
    /\ ChunksOf(committed, 1) # EmptyBag
    /\ {r.id : r \in Working.sources} = {2}
    /\ ChunksOf(Working, 1) = EmptyBag
    /\ ChunksOf(Working, 2) # EmptyBag

\* C6: when the newest row of the record's pair holds no fingerprint and
\* its timestamp is the record's, the synchronizer reports the record
\* unchanged and the row differs from what it was in fingerprint, title and
\* metadata only, which are the record's; the row's chunks are as they were
\* and the iteration ends there, no chunk inserted.  When the row holds no
\* fingerprint and another timestamp, the record is treated as changed.
C6_LegacyBackfill ==
    [][(Synced /\ Found # <<>> /\ Canonical(Found).source_fingerprint = NULL)
          => IF Canonical(Found).timestamp = item'.timestamp
             THEN /\ unchanged' /\ branch' = "backfill"
                  /\ source_id' = Canonical(Found).id
                  /\ SourcesOf(Working', item'.source_type, item'.source_uri) =
                       {[Canonical(Found) EXCEPT
                           !.source_fingerprint = item'.source_fingerprint,
                           !.title = item'.title,
                           !.metadata_json = item'.metadata_json]}
                  /\ ChunksOf(Working', source_id') = ChunksOf(Working, source_id')
                  /\ inserted_chunks' = inserted_chunks
                  /\ pc' = pc /\ pos' = pos + 1
             ELSE /\ ~unchanged' /\ branch' = "changed"
                  /\ source_id' = Canonical(Found).id
                  /\ pc' \in {"notes_chunks", "git_chunks"}
                  /\ RowOf(Working', source_id').source_fingerprint =
                       item'.source_fingerprint
                  /\ RowOf(Working', source_id').timestamp = item'.timestamp]_vars

\* a legacy row was backfilled: it holds the fingerprint of the record and
\* the chunk it had
C6_Witness ==
    /\ IngestedItem
    /\ branch = "backfill"
    /\ \E r \in SourcesOf(committed, item.source_type, item.source_uri) :
         /\ r.id = source_id
         /\ r.source_fingerprint = NULL
         /\ r.title # item.title
         /\ ChunksOf(committed, r.id) = ChunksOf(Working, r.id)
         /\ ChunksOf(Working, r.id) # EmptyBag
    /\ RowOf(Working, source_id).source_fingerprint = item.source_fingerprint
    /\ RowOf(Working, source_id).title = item.title
    /\ inserted_chunks = 0

\* the text whose digest a fingerprint is (digests are taken to be free of
\* collisions)
FingerprintedText(fp) == Tail(fp)

\* the chunks of the source are the chunker's output over the text whose
\* hash the source's row holds
ChunksMatchFingerprint(db, sid, a) ==
    /\ RowOf(db, sid).source_fingerprint # NULL
    /\ ChunkSeq(db, sid) =
         chunk_text(FingerprintedText(RowOf(db, sid).source_fingerprint),
                    WindowOf(a)[1], WindowOf(a)[2])

\* C4 as claimed: after every completed ingestion of a record the chunks of
\* the canonical row, in chunk_index order, are the chunker's output over
\* the text whose hash the row's fingerprint holds; a legacy row and the
\* survivor of a duplicate collapse included.
C4_AsClaimed ==
    IngestedItem => ChunksMatchFingerprint(Working, source_id, item)

\* C4 amended: an ingestion that inserts the row or judges the record
\* changed (a legacy row of another timestamp and the survivor of a
\* duplicate collapse included) leaves the canonical row with the record's
\* fingerprint and with chunks that are, in chunk_index order, the chunker's
\* output over the text of that fingerprint; an ingestion that judges the
\* record unchanged leaves the row with the record's fingerprint and with
\* the chunks it had, so that they are the chunker's output over that text
\* if and only if they were before.
C4_ChunkConsistency ==
    [][/\ ChunkStep
          => /\ branch \in {"insert", "changed"}
             /\ RowOf(Working', source_id).source_fingerprint =
                  source_fingerprint_of(item.text)
             /\ ChunksMatchFingerprint(Working', source_id, item)
       /\ (Synced /\ unchanged')
          => /\ branch' \in {"unchanged", "backfill"}
             /\ pc' = pc
             /\ RowOf(Working', source_id').source_fingerprint =
                  source_fingerprint_of(item'.text)
             /\ ChunksOf(Working', source_id') = ChunksOf(Working, source_id')
             /\ ChunksMatchFingerprint(Working', source_id', item')
                  <=> ChunkSeq(Working, source_id') =
                        chunk_text(item'.text, WindowOf(item')[1], WindowOf(item')[2])
       /\ (Synced /\ ~unchanged')
          => /\ branch' \in {"insert", "changed"}
             /\ pc' \in {"notes_chunks", "git_chunks"}]_vars

\* the survivor of a duplicate collapse, a legacy row of another timestamp,
\* now holds the two chunks of the record's text
C4_Witness ==
    /\ IngestedItem
    /\ branch = "changed"
    /\ Cardinality(SourcesOf(committed, item.source_type, item.source_uri)) = 2
    /\ \A r \in SourcesOf(committed, item.source_type, item.source_uri) :
         r.source_fingerprint = NULL
    /\ Len(ChunkSeq(Working, source_id)) = 2
    /\ ChunksMatchFingerprint(Working, source_id, item)

\* the git_commit rows of a commit
CommitSources(db, row) == SourcesOf(db, "git_commit", GitRecord(row).source_uri)

\* the commit's author is the target pair, name and email
AuthoredBy(row, tgt) == <<row.author_name, row.author_email>> = tgt

\* C7: an iteration of ingest_git over a commit whose author name or email
\* is not the target's leaves no row of the commit's URI and no chunk of
\* such a row, inserts no row and no chunk; and when the loop of a run is
\* through, every commit of its log has one row if the target authored it
\* and none if not.
C7_AuthorshipFilter ==
    /\ [][(pc = "git" /\ pc' \in {"git", "git_chunks"}
              /\ ~AuthoredBy(rows[pos + 1], target))
            => /\ branch' = "author_mismatch"
               /\ pc' = "git" /\ pos' = pos + 1
               /\ CommitSources(Working', rows[pos + 1]) = {}
               /\ \A r \in CommitSources(Working, rows[pos + 1]) :
                    ChunksOf(Working', r.id) = EmptyBag
               /\ Working'.sources \subseteq Working.sources
               /\ Working'.seq = Working.seq
               /\ \A c \in DOMAIN Working'.evidence_chunks :
                    /\ c \in DOMAIN Working.evidence_chunks
                    /\ Working'.evidence_chunks[c] = Working.evidence_chunks[c]
               /\ inserted_chunks' = inserted_chunks]_vars
    /\ [](pc = "git" /\ pos = Len(rows)
            => \A i \in 1..Len(rows) :
                 Cardinality(CommitSources(Working, rows[i])) =
                   IF AuthoredBy(rows[i], target) THEN 1 ELSE 0)

\* both commits had a row; the run scanned both for a target that authored
\* one of them, and one row is left
C7_Witness ==
    /\ pc = "git" /\ pos = 2 /\ Len(rows) = 2
    /\ \A i \in 1..2 : Cardinality(CommitSources(committed, rows[i])) >= 1
    /\ \E i \in 1..2 : CommitSources(committed, rows[i]) # CommitSources(Working, rows[i])
    /\ Cardinality({r \in Working.sources : r.source_type = "git_commit"}) = 1

\* C8: the committed store changes only in the step that ends a call with
\* every item of the batch through, and becomes the store as that call left
\* it; never between the synchronizer's update of a row and the replacement
\* of the row's chunks.  When a call raises, the committed store is still
\* what it was before the call, and closing the connection sets the store
\* back to it.
C8_CommitAtomicity ==
    [][/\ committed' # committed
          => /\ pc \in {"notes", "git"}
             /\ pos = (IF pc = "notes" THEN Len(md_files) ELSE Len(rows))
             /\ pc' = "idle"
             /\ committed' = Working
             /\ Working' = Working
       /\ pc' = "raised" => Working' = Working /\ committed' = committed
       /\ pc = "raised" => pc' = "idle" /\ Working' = committed /\ committed' = committed]_vars

\* a call raised between the update of a row and the replacement of its
\* chunks, the connection was closed, and the store is the committed one
C8_Witness ==
    /\ pc = "idle"
    /\ exc = "OperationalError"
    /\ Working = committed
    /\ sources # {}

\* the exceptions section 7 calls fatal
FatalErrors ==
    {"FileNotFoundError: vault", "FileNotFoundError: not a git repository",
     "ValueError: target author", "CalledProcessError", "ValueError: eval file"}

\* C9: a missing vault, a path without .git, a missing target author, a
\* failing git subprocess and a malformed query file raise with the store
\* as the last commit left it: the call has written no row of any table.
C9_FatalBeforeFirstWrite ==
    [][(pc' = "raised" /\ exc' \in FatalErrors)
          => /\ Working' = Working
             /\ Working = committed
             /\ committed' = committed]_vars

\* a malformed query file on a store that holds sources and queries
C9_Witness ==
    /\ pc = "raised"
    /\ exc = "ValueError: eval file"
    /\ sources # {}
    /\ queries_eval # {}
    /\ Working = committed

(***************************************************************************)
(* retrieve/lexical.py: lexical_overlap_score as a call                    *)
(***************************************************************************)
\* tokens as tokenize gives them: lower-case words
Tokens == {<<"a">>, <<"b">>, <<"c">>}
TokenLists == SeqsUpTo(Tokens, MaxTokens)

InitScore ==
    /\ q_tokens \in TokenLists
    /\ d_tokens \in TokenLists
    /\ lex = NULL /\ lpc = "entry"
    /\ InitChunkerIdle
    /\ InitStore(EmptyDB)
    /\ InitNoCall
    /\ InitNoAsk
    /\ InitNoEval
    /\ InitNoTool

\* lines 85-86: if not query_tokens or not doc_tokens: return 0.0
ScoreEmptyCheck ==
    /\ lpc = "entry"
    /\ IF q_tokens = <<>> \/ d_tokens = <<>>
       THEN lex' = FZero /\ lpc' = "done"
       ELSE lex' = lex /\ lpc' = "count"
    /\ UNCHANGED <<q_tokens, d_tokens, askVars, evalVars, toolVars, chunkVars,
                   dbVars, committed,
                   callVars>>

\* lines 88-95: the counters, the dot product, the norms, the quotient
ScoreCosine ==
    /\ lpc = "count"
    /\ lex' = CosineOfCounts(q_tokens, d_tokens)
    /\ lpc' = "done"
    /\ UNCHANGED <<q_tokens, d_tokens, askVars, evalVars, toolVars, chunkVars,
                   dbVars, committed,
                   callVars>>

NextScore == ScoreEmptyCheck \/ ScoreCosine

SpecScore == InitScore /\ [][NextScore]_vars

(***************************************************************************)
(* cli.py ask, retrieve/lexical.py: retrieve as a call                     *)
(***************************************************************************)
InitAsk ==
    /\ \E db \in AskStores : InitStore(db)
    /\ InitChunkerIdle
    /\ InitNoCall
    /\ InitNoQuery

\* lines 29-32: the call, tokenize(query), the return of [] for no token
AskBegin ==
    /\ rpc = "idle"
    /\ \E q \in AskQueries, k \in TopKs :
         /\ query' = q
         /\ top_k' = k
         /\ IF tokenize(q) = <<>>
            THEN hits' = <<>> /\ rpc' = "done"
            ELSE hits' = hits /\ rpc' = "select"
    /\ UNCHANGED <<now, fetched, selected, scored, scoreVars, evalVars, toolVars, chunkVars,
                   dbVars,
                   committed, callVars>>

\* lines 34-77: the SELECT, the clock, the scoring loop, the sort, the slice
AskSelect ==
    /\ rpc = "select"
    /\ \E o \in ScanOrders(Working), t \in AskNows :
         /\ fetched' = o
         /\ now' = t
         /\ scored' = ScoredRows(o, tokenize(query), t)
         /\ hits' = SliceFromStart(scored', top_k)
    /\ selected' = TRUE
    /\ rpc' = "done"
    /\ UNCHANGED <<query, top_k, scoreVars, evalVars, toolVars, chunkVars,
                   dbVars, committed, callVars>>

NextAsk == AskBegin \/ AskSelect

SpecAsk == InitAsk /\ [][NextAsk]_vars

(***************************************************************************)
(* evaluation.py: run_eval                                                 *)
(***************************************************************************)
\* A Python object handed to parse_expected_source_uris is None (NULL), a
\* list of strings and integers <<"list", items>>, an int <<"int", n>>, the text
\* json.dumps wrote for a list of strings <<"json", uris>>, or any other
\* text <<"str", chars>>.

\* json.loads: whitespace between the tokens
JsonWhitespace == {" ", "\t", "\n", "\r"}
RECURSIVE SkipWs(_, _)
SkipWs(s, i) == IF i <= Len(s) /\ s[i] \in JsonWhitespace THEN SkipWs(s, i + 1) ELSE i

\* the first position from i on that holds c (0: none)
RECURSIVE IndexFrom(_, _, _)
IndexFrom(s, c, i) ==
    IF i > Len(s) THEN 0 ELSE IF s[i] = c THEN i ELSE IndexFrom(s, c, i + 1)

\* JSONDecodeError
JsonError == [ok |-> FALSE, value |-> <<>>, next |-> 0]

\* a string token opening at i (the texts of the model hold no backslash
\* and no control character)
JsonString(s, i) ==
    IF IndexFrom(s, "\"", i + 1) = 0 THEN JsonError
    ELSE [ok |-> TRUE,
          value |-> <<"jstr", SubSeq(s, i + 1, IndexFrom(s, "\"", i + 1) - 1)>>,
          next |-> IndexFrom(s, "\"", i + 1) + 1]

\* an integer token opening at i: 0, or a digit other than 0 and the digits
\* that follow
RECURSIVE DigitsEnd(_, _)
DigitsEnd(s, i) == IF i <= Len(s) /\ s[i] \in Digits THEN DigitsEnd(s, i + 1) ELSE i
JsonNumber(s, i) ==
    IF s[i] = "0" THEN [ok |-> TRUE, value |-> <<"jnum", <<"0">> >>, next |-> i + 1]
    ELSE [ok |-> TRUE, value |-> <<"jnum", SubSeq(s, i, DigitsEnd(s, i) - 1)>>,
          next |-> DigitsEnd(s, i)]

\* a string or an integer at i
JsonScalar(s, i) ==
    IF i > Len(s) THEN JsonError
    ELSE IF s[i] = "\"" THEN JsonString(s, i)
    ELSE IF s[i] \in Digits THEN JsonNumber(s, i)
    ELSE JsonError

\* the elements of an array from i on, acc being those read; v is the
\* element read at i
RECURSIVE JsonElements(_, _, _)
JsonAfterElement(s, v, acc) ==
    IF ~v.ok \/ SkipWs(s, v.next) > Len(s) THEN JsonError
    ELSE IF s[SkipWs(s, v.next)] = ","
         THEN JsonElements(s, SkipWs(s, v.next) + 1, Append(acc, v.value))
    ELSE IF s[SkipWs(s, v.next)] = "]"
         THEN [ok |-> TRUE, value |-> <<"jlist", Append(acc, v.value)>>,
               next |-> SkipWs(s, v.next) + 1]
    ELSE JsonError
JsonElements(s, i, acc) == JsonAfterElement(s, JsonScalar(s, SkipWs(s, i)), acc)

\* an array opening at i, of strings and integers
JsonArray(s, i) ==
    IF SkipWs(s, i + 1) <= Len(s) /\ s[SkipWs(s, i + 1)] = "]"
    THEN [ok |-> TRUE, value |-> <<"jlist", <<>> >>, next |-> SkipWs(s, i + 1) + 1]
    ELSE JsonElements(s, i + 1, <<>>)

\* json.loads(text) for a text that holds strings, integers and arrays of
\* them: one value, and nothing but whitespace around it
JsonValueAt(s, i) ==
    IF i <= Len(s) /\ s[i] = "[" THEN JsonArray(s, i) ELSE JsonScalar(s, i)
JsonWhole(s, v) == IF v.ok /\ SkipWs(s, v.next) = Len(s) + 1 THEN v ELSE JsonError
json_loads(s) == JsonWhole(s, JsonValueAt(s, SkipWs(s, 1)))

\* text.split(",")
RECURSIVE Split(_, _)
Split(s, c) ==
    IF IndexFrom(s, c, 1) = 0 THEN <<s>>
    ELSE <<SubSeq(s, 1, IndexFrom(s, c, 1) - 1)>>
         \o Split(SubSeq(s, IndexFrom(s, c, 1) + 1, Len(s)), c)

\* str(n) for an int n >= 0
DecimalDigits == <<"0", "1", "2", "3", "4", "5", "6", "7", "8", "9">>
RECURSIVE StrOfInt(_)
StrOfInt(n) ==
    IF n < 10 THEN <<DecimalDigits[n + 1]>>
    ELSE StrOfInt(n \div 10) \o <<DecimalDigits[(n % 10) + 1]>>

\* [str(x) for x in ...]: a string <<"jstr", chars>> as it is, an integer
\* <<"jnum", digits>> by its digits
RECURSIVE StrEach(_)
StrEach(xs) == IF xs = <<>> THEN <<>> ELSE <<Head(xs)[2]>> \o StrEach(Tail(xs))

\* lines 183-187: what json.loads gave
OfParsed(parsed) ==
    IF parsed.value[1] = "jlist" THEN StrEach(parsed.value[2])
    ELSE IF parsed.value[1] = "jstr" THEN <<parsed.value[2]>>
    ELSE <<>>

\* lines 176-187: raw is a str, stripped to txt
OfText(txt) ==
    IF txt = <<>> THEN <<>>
    ELSE IF ~json_loads(txt).ok THEN StripNonEmpty(Split(txt, ","))
    ELSE OfParsed(json_loads(txt))

\* isinstance(raw, str)
IsStr(raw) == IF raw = NULL THEN FALSE ELSE raw[1] \in {"json", "str"}

\* lines 169-187; the text json.dumps wrote for a list of strings is read
\* back by json.loads as that list
parse_expected_source_uris(raw) ==
    IF raw = NULL THEN <<>>
    ELSE IF raw[1] = "list" THEN StrEach(raw[2])
    ELSE IF raw[1] = "int" THEN <<StrOfInt(raw[2])>>
    ELSE IF raw[1] = "json" THEN raw[2]
    ELSE OfText(Strip(raw[2]))

\* lines 86-108 with query_prefix None: the rows by id, as EvalQuery
list_eval_queries(db) ==
    LET found == OrderById(db.queries_eval)
    IN  [i \in 1..Len(found) |->
            [id |-> found[i].id, query_text |-> found[i].query_text,
             expected_source_uris |->
                 parse_expected_source_uris(found[i].expected_source_uris)]]

\* every occurrence kept
KeepRepeats(source_uris, n) == SubSeq(source_uris, 1, n)

\* lines 190-198: the first n URIs without the repetitions
RECURSIVE unique_source_uris_in_order(_, _)
unique_source_uris_in_order(source_uris, n) ==
    IF n = 0 THEN <<>>
    ELSE LET out == unique_source_uris_in_order(source_uris, n - 1)
         IN  IF \E i \in 1..(n - 1) : source_uris[i] = source_uris[n] THEN out
             ELSE Append(out, source_uris[n])

\* lines 201-207: NULL for None, <<idx>> for a rank
first_correct_rank(retrieved_source_uris, expected) ==
    IF expected = {} THEN NULL
    ELSE LET at == {idx \in 1..Len(retrieved_source_uris) :
                       retrieved_source_uris[idx] \in expected}
         IN  IF at = {} THEN NULL ELSE <<CHOOSE idx \in at : \A j \in at : idx <= j>>

\* lines 48-59: the EvalQueryResult of a query, given the hits of line 47
EvalQueryResult(q, hs, k) ==
    LET uris == [i \in 1..Len(hs) |-> hs[i].source_uri]
        retrieved == unique_source_uris_in_order(uris, Len(uris))
        rank == first_correct_rank(retrieved,
                    {q.expected_source_uris[i] : i \in 1..Len(q.expected_source_uris)})
    IN  [query_text |-> q.query_text,
         expected_source_uris |-> q.expected_source_uris,
         retrieved_source_uris |-> retrieved,
         first_correct_rank |-> rank,
         recall_hit |-> rank # NULL /\ rank[1] <= k,
         citation_hit |-> rank = <<1>>]

\* the ranks summed, not their reciprocals
RECURSIVE RankSum(_, _)
RankSum(rs, n) ==
    IF n = 0 THEN FZero
    ELSE FAdd(RankSum(rs, n - 1),
              IF rs[n].first_correct_rank # NULL
              THEN FOfNat(rs[n].first_correct_rank[1])
              ELSE FZero)

\* line 74: sum((1.0 / r.first_correct_rank) if r.first_correct_rank else 0.0 ...)
\* over the first n results, from the left
RECURSIVE ReciprocalRankSum(_, _)
ReciprocalRankSum(rs, n) ==
    IF n = 0 THEN FZero
    ELSE FAdd(ReciprocalRankSum(rs, n - 1),
              IF rs[n].first_correct_rank # NULL
              THEN FDiv(FOne, FOfNat(rs[n].first_correct_rank[1]))
              ELSE FZero)

\* lines 62-83: the summary
EvalSummary(rs, k) ==
    IF rs = <<>>
    THEN [query_count |-> 0, top_k |-> k, recall_at_k |-> FZero, mrr_at_k |-> FZero,
          citation_hit_rate |-> FZero, results |-> <<>>]
    ELSE LET query_count == Len(rs)
             recalled == Cardinality({i \in 1..Len(rs) : rs[i].recall_hit})
             cited    == Cardinality({i \in 1..Len(rs) : rs[i].citation_hit})
         IN  [query_count |-> query_count, top_k |-> k,
              recall_at_k |-> FDiv(FOfNat(recalled), FOfNat(query_count)),
              mrr_at_k |-> FDiv(ReciprocalRankSum(rs, Len(rs)), FOfNat(query_count)),
              citation_hit_rate |-> FDiv(FOfNat(cited), FOfNat(query_count)),
              results |-> rs]

\* the evaluation queries eval --load-queries is given: a question and the
\* URIs expected for it
EvalChoices ==
    {[query_text |-> <<"a">>, expected_source_uris |-> <<PathB>>],
     [query_text |-> <<"a">>, expected_source_uris |-> <<PathA>>],
     [query_text |-> <<"A", " ", "b">>, expected_source_uris |-> <<PathA, PathB>>],
     [query_text |-> <<"A", " ", "b">>, expected_source_uris |-> <<>>],
     [query_text |-> <<"?", " ">>, expected_source_uris |-> <<PathA>>]}

\* the stores run_eval is called on: the older note, if any, at PathA, the
\* newer at PathB, and the queries upsert_eval_queries stored
EvalStores ==
    LET notes == {db \in AskStores :
                    \A r \in db.sources :
                        r.timestamp = IF r.source_uri = PathA THEN <<1>> ELSE <<4>>}
    IN  {upsert_eval_queries(db, qs) : db \in notes, qs \in SeqsUpTo(EvalChoices, MaxEvalQueries)}

InitEval ==
    /\ \E db \in EvalStores : InitStore(db)
    /\ InitChunkerIdle
    /\ InitNoCall
    /\ InitNoQuery

\* lines 44-45: list_eval_queries, results = []
EvalBegin ==
    /\ epc = "idle"
    /\ \E k \in TopKs : top_k' = k
    /\ eval_queries' = list_eval_queries(Working)
    /\ results' = <<>>
    /\ epc' = "loop"
    /\ UNCHANGED <<summary, query, now, fetched, selected, scored, hits, rpc, scoreVars,
                   toolVars, chunkVars,
                   dbVars, committed, callVars>>

\* lines 46-60: one pass through the loop: retrieve, the unique URIs, the
\* rank, the result appended
EvalOneQuery ==
    /\ epc = "loop"
    /\ Len(results) < Len(eval_queries)
    /\ \E o \in ScanOrders(Working), t \in AskNows :
         LET q == eval_queries[Len(results) + 1]
         IN  /\ hits' = retrieve(o, q.query_text, top_k, t)
             /\ results' = Append(results, EvalQueryResult(q, hits', top_k))
    /\ UNCHANGED <<eval_queries, summary, epc, query, top_k, now, fetched, selected, scored,
                   rpc, scoreVars, toolVars, chunkVars,
                   dbVars, committed, callVars>>

\* lines 62-83: the loop is over; the summary is returned
EvalReturn ==
    /\ epc = "loop"
    /\ Len(results) = Len(eval_queries)
    /\ summary' = EvalSummary(results, top_k)
    /\ epc' = "done"
    /\ UNCHANGED <<eval_queries, results, askVars, scoreVars, toolVars, chunkVars,
                   dbVars, committed,
                   callVars>>

NextEval == EvalBegin \/ EvalOneQuery \/ EvalReturn

SpecEval == InitEval /\ [][NextEval]_vars

(***************************************************************************)
(* Properties of retrieve                                                  *)
(***************************************************************************)
\* the words of a text, as sets of characters would spell them: maximal
\* runs of letters, digits and underscores, letters taken as lower case
IsWordChar(c) ==
    \/ c = "_"
    \/ c \in Digits
    \/ \E i \in 1..26 : c = LowerCase[i] \/ c = UpperCase[i]
SameLetter(c, d) ==
    c = d \/ \E i \in 1..26 : {c, d} = {LowerCase[i], UpperCase[i]}
WordAt(s, i, j) ==
    /\ i <= j
    /\ \A k \in i..j : IsWordChar(s[k])
    /\ (i = 1 \/ ~IsWordChar(s[i - 1]))
    /\ (j = Len(s) \/ ~IsWordChar(s[j + 1]))
SharesToken(s, u) ==
    \E i, j \in 1..Len(s), k, l \in 1..Len(u) :
        /\ WordAt(s, i, j) /\ WordAt(u, k, l)
        /\ j - i = l - k
        /\ \A n \in 0..(j - i) : SameLetter(s[i + n], u[k + n])

\* the number of fetched rows whose chunk shares a word with the query
Qualifying == Cardinality({i \in 1..Len(fetched) : SharesToken(query, fetched[i].chunk_text)})

\* C12: whatever integer top_k is, retrieve returns at most top_k hits (none
\* for a top_k below 1), and exactly min(top_k, Q) of them when Q chunks
\* share a token with the query; the hits come in non-increasing order of
\* score, and no qualifying chunk left out scores above a returned one.
C12_AsClaimed ==
    rpc = "done" =>
        /\ Len(hits) <= Max(top_k, 0)
        /\ Len(hits) = Min(Max(top_k, 0), Qualifying)
        /\ \A i, j \in 1..Len(hits) : i < j => FLeq(hits[j].score, hits[i].score)
        /\ Len(scored) = Qualifying
        /\ \A i \in 1..Len(hits) : hits[i] = scored[i]
        /\ \A i \in 1..Len(hits), j \in (Len(hits) + 1)..Len(scored) :
              FLeq(scored[j].score, hits[i].score)

\* C13: a query without a word character (empty, blank, punctuation only)
\* makes retrieve return the empty list, whatever the store holds and
\* whatever top_k is, and the SELECT over chunks and sources is never run.
C13_NoTokenNoScan ==
    (rpc = "done" /\ \A i \in 1..Len(query) : ~IsWordChar(query[i])) =>
        hits = <<>> /\ ~selected /\ fetched = <<>>

\* a question of punctuation and a blank asked with top_k = 2 of a store
\* that holds chunks
C13_Witness ==
    /\ rpc = "done"
    /\ query = <<"?", " ">>
    /\ top_k = 2
    /\ evidence_chunks # EmptyBag
    /\ hits = <<>>

\* C14: every hit of retrieve is a chunk that shares a lower-cased word
\* with the query, and its lexical score is above 0; a chunk that shares
\* none is not returned, even when it is the newest and the hits are fewer
\* than top_k.
C14_HitsShareAToken ==
    rpc = "done" =>
        \A i \in 1..Len(hits) :
            /\ SharesToken(query, hits[i].chunk_text)
            /\ FLess(FZero, hits[i].lexical_score)

\* one hit for top_k = 2, while a chunk of a newer note that shares no word
\* with the query was fetched
C14_Witness ==
    /\ rpc = "done"
    /\ top_k = 2
    /\ Len(hits) = 1
    /\ \E i \in 1..Len(fetched) :
         /\ ~SharesToken(query, fetched[i].chunk_text)
         /\ fetched[i].source_timestamp[1] > hits[1].source_timestamp[1]

\* the age in whole days line 105 computes
DaysOld(h) == Max((now - h.source_timestamp[1]) \div TicksPerDay, 0)

C18_AsClaimed ==
    epc = "done" =>
        /\ FLeq(summary.citation_hit_rate, summary.recall_at_k)
        /\ \A x \in {summary.recall_at_k, summary.mrr_at_k, summary.citation_hit_rate} :
              FLeq(FZero, x) /\ FLeq(x, FOne)
        /\ eval_queries = <<>> =>
              /\ summary.query_count = 0
              /\ summary.recall_at_k = FZero
              /\ summary.mrr_at_k = FZero
              /\ summary.citation_hit_rate = FZero

\* C19: in every result of run_eval, for every top_k, recall_hit is true
\* exactly when first_correct_rank is present.
C19_AsClaimed ==
    \A i \in 1..Len(results) :
        results[i].recall_hit <=> results[i].first_correct_rank # NULL

\* the URIs of the hits of the last pass through the loop, and the place
\* where a URI first occurs among them
HitUris == [i \in 1..Len(hits) |-> hits[i].source_uri]
FirstAt(u) == CHOOSE i \in 1..Len(hits) : HitUris[i] = u /\ \A j \in 1..(i - 1) : HitUris[j] # u

\* C20: the retrieved URIs of a result are the URIs of the hits, each once,
\* in the order of their first occurrence, so that several hits of one
\* source take one position; first_correct_rank is the 1-based position of
\* the first of them that is expected, and it is absent when none is
\* expected or nothing is expected.
C20_FirstCorrectRank ==
    (epc = "loop" /\ results # <<>>) =>
        LET r == results[Len(results)]
            d == r.retrieved_source_uris
            expected == {r.expected_source_uris[i] : i \in 1..Len(r.expected_source_uris)}
            correct == {i \in 1..Len(d) : d[i] \in expected}
        IN  /\ \A i, j \in 1..Len(d) : i < j => d[i] # d[j]
            /\ {d[i] : i \in 1..Len(d)} = {HitUris[i] : i \in 1..Len(hits)}
            /\ \A i, j \in 1..Len(d) : i < j => FirstAt(d[i]) < FirstAt(d[j])
            /\ correct = {} => r.first_correct_rank = NULL
            /\ correct # {} =>
                  /\ r.first_correct_rank # NULL
                  /\ r.first_correct_rank[1] \in correct
                  /\ \A i \in correct : r.first_correct_rank[1] <= i

\* two hits of the note at PathA and then one of the note at PathB, which
\* is the expected one: its rank is 2
C20_Witness ==
    /\ epc = "loop"
    /\ results # <<>>
    /\ HitUris = <<PathA, PathA, PathB>>
    /\ results[Len(results)].retrieved_source_uris = <<PathA, PathB>>
    /\ results[Len(results)].expected_source_uris = <<PathB>>
    /\ results[Len(results)].first_correct_rank = <<2>>

(***************************************************************************)
(* Properties of lexical_overlap_score                                     *)
(***************************************************************************)
\* the two lists hold the same tokens the same number of times
SameTokenCounts(xs, ys) ==
    \A t \in Tokens :
        Cardinality({i \in 1..Len(xs) : xs[i] = t}) = Cardinality({i \in 1..Len(ys) : ys[i] = t})

\* C16: a chunk whose tokens are the query's tokens, each as often as the
\* query has it, and no other token, gets the lexical score exactly 1.0,
\* whatever the query's tokens are and however often it repeats one.
C16_AsClaimed ==
    (lpc = "done" /\ q_tokens # <<>> /\ SameTokenCounts(q_tokens, d_tokens)) => lex = FOne

\* C17: the value lexical_overlap_score returns is a float in [0, 1] for
\* every two token lists, and it is 0.0 when one of them is empty.
C17_AsClaimed ==
    lpc = "done" =>
        /\ FLeq(FZero, lex)
        /\ FLeq(lex, FOne)
        /\ (q_tokens = <<>> \/ d_tokens = <<>>) => lex = FZero

(***************************************************************************)
(* evaluation.py: upsert_eval_queries as a call                            *)
(***************************************************************************)
\* the texts and the expected lists of the queries submitted
QueryQ == <<"q">>
QueryR == <<"r">>
UpsertChoices ==
    {[query_text |-> QueryQ, expected_source_uris |-> <<>>],
     [query_text |-> QueryQ, expected_source_uris |-> <<PathA>>],
     [query_text |-> QueryQ, expected_source_uris |-> <<PathB>>],
     [query_text |-> QueryR, expected_source_uris |-> <<PathA>>]}

\* what the expected_source_uris column of a row written earlier holds
StoredExpected == {NULL, json_dumps(<<>>), json_dumps(<<PathA>>)}

\* the tables a call can find: n rows of text q, which no constraint of
\* db.py 32-37 keeps apart, with ids 1..n; then, or not, a row of text r
EvalTable(expected, with_r) ==
    LET n == Len(expected)
        qs == {[id |-> i, query_text |-> QueryQ, expected_source_uris |-> expected[i]] :
                  i \in 1..n}
        rs == IF with_r
              THEN {[id |-> n + 1, query_text |-> QueryR,
                     expected_source_uris |-> json_dumps(<<PathB>>)]}
              ELSE {}
    IN  DB({}, EmptyBag, qs \cup rs,
           [sources |-> 0, queries_eval |-> n + (IF with_r THEN 1 ELSE 0)])
UpsertStores ==
    {EvalTable(e, w) : e \in SeqsUpTo(StoredExpected, MaxDup), w \in BOOLEAN}

InitUpsert ==
    /\ \E db \in UpsertStores : InitStore(db)
    /\ InitChunkerIdle
    /\ InitNoCall
    /\ InitNoQuery

\* lines 131-166: the loop over the queries, conn.commit(), the return
UpsertEvalQueries ==
    /\ pc = "idle"
    /\ \E qs \in SeqsUpTo(UpsertChoices, MaxEvalQueries) :
         /\ qs # <<>>
         /\ upsert_eval_queries(Working, qs).seq.queries_eval <= MaxEvalId
         /\ submitted' = qs
         /\ SetWorking(upsert_eval_queries(Working, qs))
         /\ committed' = upsert_eval_queries(Working, qs)
    /\ UNCHANGED <<scoreVars, askVars, evalVars, parseVars, purgeVars, chunkVars, callVars>>

NextUpsert == UpsertEvalQueries

SpecUpsert == InitUpsert /\ [][NextUpsert]_vars

(***************************************************************************)
(* Properties of upsert_eval_queries                                       *)
(***************************************************************************)
\* the rows of a table that hold a text
EvalRowsOf(table, qt) == {r \in table : r.query_text = qt}

\* no two rows of a table hold the same text
UniqueTexts(table) ==
    \A r1 \in table, r2 \in table : r1.query_text = r2.query_text => r1 = r2

\* the position of the last query of a list that has the text of query i
LastWithText(qs, i) ==
    CHOOSE j \in i..Len(qs) :
        /\ qs[j].query_text = qs[i].query_text
        /\ \A k \in (j + 1)..Len(qs) : qs[k].query_text # qs[i].query_text

\* C21: once upsert_eval_queries has returned, every text of the list it
\* was given is held by exactly one row, whose expected_source_uris is the
\* list submitted with that text, the last one if the text was submitted
\* several times, however many rows held the text before; and a table in
\* which no two rows hold the same text is left so by the call.
C21_OneRowPerText ==
    [][/\ \A i \in 1..Len(submitted') :
            LET held == EvalRowsOf(queries_eval', submitted'[i].query_text)
                last == submitted'[LastWithText(submitted', i)]
            IN  /\ Cardinality(held) = 1
                /\ \A r \in held :
                     r.expected_source_uris = <<"json", last.expected_source_uris>>
       /\ UniqueTexts(queries_eval) => UniqueTexts(queries_eval')]_vars

\* two rows held text q, the list gave q twice, and one row is left with
\* the list given last
C21_Witness ==
    /\ Len(submitted) = 2
    /\ submitted[1].query_text = QueryQ
    /\ submitted[2] = [query_text |-> QueryQ, expected_source_uris |-> <<PathB>>]
    /\ submitted[1].expected_source_uris = <<PathA>>
    /\ seq.queries_eval = 2
    /\ Cardinality(queries_eval) = 1
    /\ \A r \in queries_eval : r.expected_source_uris = json_dumps(<<PathB>>)

\* C22 as claimed: of several rows that hold the text of a query, the call
\* keeps the one the source synchronizer would keep, the last in ascending
\* id order, and deletes the others.
C22_AsClaimed ==
    [][\A i \in 1..Len(submitted') :
          LET found == SelectEval(Working, submitted'[i].query_text)
          IN  Len(found) >= 2
                => {r.id : r \in EvalRowsOf(queries_eval', submitted'[i].query_text)}
                     = {Canonical(found).id}]_vars

\* C22 amended: of several rows that hold the text of a query, the call
\* keeps the first in ascending id order, the row of the lowest id, under
\* that id and with the list submitted, and deletes every other; the rows
\* of the other texts are as they were.
C22_KeepsLowestId ==
    [][\A i \in 1..Len(submitted') :
          LET before == EvalRowsOf(queries_eval, submitted'[i].query_text)
              after  == EvalRowsOf(queries_eval', submitted'[i].query_text)
          IN  /\ Cardinality(before) >= 2
                   => /\ \E r \in before :
                           /\ \A o \in before : r.id <= o.id
                           /\ {x.id : x \in after} = {r.id}
                      /\ \A o \in before, x \in after : x.id <= o.id
              /\ \A r \in queries_eval :
                   (\A j \in 1..Len(submitted') : submitted'[j].query_text # r.query_text)
                      => r \in queries_eval']_vars

\* ids 1 and 2 held text q and only the row of id 1 is left, while the row
\* of text r, id 3, is as it was
C22_Witness ==
    /\ submitted # <<>>
    /\ \A i \in 1..Len(submitted) : submitted[i].query_text = QueryQ
    /\ seq.queries_eval = 3
    /\ {r.id : r \in EvalRowsOf(queries_eval, QueryQ)} = {1}
    /\ {r.id : r \in EvalRowsOf(queries_eval, QueryR)} = {3}

(***************************************************************************)
(* evaluation.py: parse_expected_source_uris as a call                     *)
(***************************************************************************)
\* the elements of the lists handed over
ParseItems ==
    {<<"jstr", <<"a">> >>, <<"jstr", <<" ", "a">> >>, <<"jstr", <<>> >>, <<"jnum", <<"1">> >>}
\* the texts with no JSON in them, and the texts written as JSON by hand
CommaTexts == SeqsUpTo({"a", " ", ","}, MaxRawLen)
JsonTexts ==
    {<<"[", "\"", " ", "a", "\"", ",", " ", "\"", "\"", "]">>,
     <<"\"", "a", " ", "\"">>,
     <<"1">>,
     <<"[", "1", "]">>,
     <<"[", "\"", "a", "\"", ",", "]">>,
     <<" ", "[", " ", "\"", "a", "\"", " ", ",", " ", "\"", "u", "\"", " ", "]", " ">>,
     <<"[", "]">>,
     <<"0", "1">>,
     <<"[", "\"", "a", "\"">>,
     <<"\"", "a">>}
ParseInputs ==
    {NULL}
    \cup {<<"list", xs>> : xs \in SeqsUpTo(ParseItems, 2)}
    \cup {<<"int", n>> : n \in {7, 10}}
    \cup {<<"json", us>> : us \in SeqsUpTo({PathA, <<"u", " ">>}, 2)}
    \cup {<<"str", t>> : t \in CommaTexts \cup JsonTexts}

InitParse ==
    /\ raw_uris \in ParseInputs
    /\ parsed_uris = NULL
    /\ ppc = "entry"
    /\ InitStore(EmptyDB)
    /\ InitChunkerIdle
    /\ InitNoCall
    /\ InitNoScore /\ InitNoAsk /\ InitNoEval /\ InitNoUpsert /\ InitNoPurge

\* lines 170-175: raw is None, a list, or neither a list nor a str
ParseObject ==
    /\ ppc = "entry"
    /\ ~IsStr(raw_uris)
    /\ parsed_uris' = parse_expected_source_uris(raw_uris)
    /\ ppc' = "done"
    /\ UNCHANGED <<raw_uris, scoreVars, askVars, evalVars, upsertVars, purgeVars, chunkVars,
                   dbVars, committed, callVars>>

\* lines 176-187: raw is a str
ParseText ==
    /\ ppc = "entry"
    /\ IsStr(raw_uris)
    /\ parsed_uris' = parse_expected_source_uris(raw_uris)
    /\ ppc' = "done"
    /\ UNCHANGED <<raw_uris, scoreVars, askVars, evalVars, upsertVars, purgeVars, chunkVars,
                   dbVars, committed, callVars>>

NextParse == ParseObject \/ ParseText

SpecParse == InitParse /\ [][NextParse]_vars

(***************************************************************************)
(* Properties of parse_expected_source_uris                                *)
(***************************************************************************)
\* C23 as claimed: whatever shape the input has, a structured list, a text
\* holding JSON or a comma-separated text, no element of the list returned
\* is empty and none begins or ends with whitespace.
C23_AsClaimed ==
    ppc = "done" =>
        \A i \in 1..Len(parsed_uris) :
            /\ parsed_uris[i] # <<>>
            /\ parsed_uris[i][1] \notin Whitespace
            /\ parsed_uris[i][Len(parsed_uris[i])] \notin Whitespace

(***************************************************************************)
(* sample_data.py: purge_seeded_sample_data, next to the ingestion calls   *)
(***************************************************************************)
\* lines 47-48, 80-81: the directories of a workspace
SampleVaultName == <<"s", "a", "m", "p", "l", "e", "_", "v", "a", "u", "l", "t">>
SampleRepoName == <<"s", "a", "m", "p", "l", "e", "_", "r", "e", "p", "o">>
\* line 107: the pattern of the marker
SampleMarkerPattern == <<"[", "s", "a", "m", "p", "l", "e", "]", "%">>

\* pathlib: dir / name
JoinPath(dir, name) == IF dir = <<"/">> THEN dir \o name ELSE dir \o <<"/">> \o name

\* <<"[", "s", "a", "m", "p", "l", "e", "]", " ", "q">>Lite's LIKE: % stands for any characters, none included, _ for any one
\* character, and an ASCII letter for itself in either case
RECURSIVE SqlLike(_, _)
SqlLike(pattern, s) ==
    IF pattern = <<>> THEN s = <<>>
    ELSE IF Head(pattern) = "%"
         THEN IF SqlLike(Tail(pattern), s) THEN TRUE
              ELSE IF s = <<>> THEN FALSE ELSE SqlLike(pattern, Tail(s))
    ELSE IF s = <<>> THEN FALSE
    ELSE IF Head(pattern) = "_" THEN SqlLike(Tail(pattern), Tail(s))
    ELSE IF Lower(Head(pattern)) = Lower(Head(s)) THEN SqlLike(Tail(pattern), Tail(s))
    ELSE FALSE

\* lines 83-91: the ids of the SELECT; ws is workspace_dir, resolved
SampleSourceIds(db, ws) ==
    {r.id : r \in {x \in db.sources :
        \/ SqlLike(JoinPath(ws, SampleVaultName) \o <<"/", "%">>, x.source_uri)
        \/ SqlLike(JoinPath(ws, SampleRepoName) \o <<"@", "%">>, x.source_uri)}}

\* the chunks left where they are
KeepChunksIn(db, ids) == db

\* lines 97-100: DELETE FROM evidence_chunks WHERE source_id IN (...)
DeleteChunksIn(db, ids) ==
    [db EXCEPT !.evidence_chunks =
        LET keep == {c \in DOMAIN @ : c.source_id \notin ids} IN [c \in keep |-> @[c]]]

\* lines 101-104: DELETE FROM sources WHERE id IN (...)
DeleteSourcesIn(db, ids) == [db EXCEPT !.sources = {r \in @ : r.id \notin ids}]

\* lines 106-108: DELETE FROM queries_eval WHERE query_text LIKE '[sample]%'
DeleteSampleQueries(db) ==
    [db EXCEPT !.queries_eval = {q \in @ : ~SqlLike(SampleMarkerPattern, q.query_text)}]

\* cursor.rowcount of the three DELETEs, between store before and after
PurgeCounts(before, after) ==
    [source_rows_deleted |-> Cardinality(before.sources) - Cardinality(after.sources),
     chunk_rows_deleted |->
         BagCardinality(before.evidence_chunks) - BagCardinality(after.evidence_chunks),
     eval_rows_deleted |->
         Cardinality(before.queries_eval) - Cardinality(after.queries_eval)]

\* lines 78-108: the store purge_seeded_sample_data leaves
purge_seeded_sample_data(db, ws) ==
    DeleteSampleQueries(
        IF SampleSourceIds(db, ws) = {} THEN db
        ELSE DeleteSourcesIn(DeleteChunksIn(db, SampleSourceIds(db, ws)),
                             SampleSourceIds(db, ws)))

\* the workspaces, a note of the sample vault of /w, a note of a directory
\* next to it, and the sample repository of /w
Workspaces == {<<"/", "w">>, <<"/", "x">>}
SampleNote == JoinPath(JoinPath(<<"/", "w">>, SampleVaultName), <<"a", ".", "m", "d">>)
NearNote == <<"/", "w", "/", "s", "a", "m", "p", "l", "e", "-", "v", "a", "u", "l", "t", "/", "a", ".", "m", "d">>
SampleRepo == JoinPath(<<"/", "w">>, SampleRepoName)
PurgeNotePaths == {SampleNote, NearNote, PathA}
PurgeNoteTexts == {<<"a">>, Slice(Letters, 0, MaxNoteLen)}
PurgeRepos == {SampleRepo, RepoPath}

\* git.py 22, 36: the record of a commit row of the repository at repo
GitRecordAt(repo, row) ==
    [GitRecord(row) EXCEPT !.source_uri = repo \o <<"@">> \o row.sha,
                           !.metadata_json[2] = repo]

\* the evaluation queries of a store: seeded ones (sample_data.py 175-188
\* write the marker in lower case), one with the marker in capitals, one
\* without
SampleQuery == <<"[", "s", "a", "m", "p", "l", "e", "]", " ", "q">>
CapitalQuery == <<"[", "S", "A", "M", "P", "L", "E", "]", " ", "q">>
PurgeEvalRows ==
    {[id |-> 1, query_text |-> SampleQuery, expected_source_uris |-> json_dumps(<<SampleNote>>)],
     [id |-> 2, query_text |-> CapitalQuery, expected_source_uris |-> json_dumps(<<PathA>>)],
     [id |-> 3, query_text |-> QueryQ, expected_source_uris |-> json_dumps(<<PathA>>)]}

\* the stores the calls start from: none or up to MaxDup rows of the sample
\* note, with their chunks, and the evaluation queries or none
PurgeStores ==
    LET withNotes ==
            {EmptyDB} \cup
            {HistoricStore(n, [a |-> NoteRecord(SampleNote, <<"a">>, 2), legacy |-> l,
                               ts |-> <<2>>]) : n \in 1..MaxDup, l \in BOOLEAN}
    IN  withNotes \cup
        {[db EXCEPT !.queries_eval = PurgeEvalRows, !.seq.queries_eval = 3] : db \in withNotes}

InitPurge ==
    /\ \E db \in PurgeStores : InitStore(db)
    /\ InitChunkerIdle
    /\ InitNoCall
    /\ InitNoQuery

\* what a call that returned leaves of its loop: the last record, what the
\* synchronizer answered, the count returned
Returned(a, r) ==
    /\ item' = a
    /\ source_id' = r.source_id
    /\ unchanged' = r.unchanged
    /\ branch' = r.branch
    /\ inserted_chunks' = r.inserted
    /\ workspace_dir' = NULL
    /\ purge_result' = NULL
    /\ UNCHANGED <<scoreVars, askVars, evalVars, upsertVars, parseVars, chunkVars, pc,
                   md_files, rows, pos, target, exc>>

\* notes.py 12-46: ingest_notes on a vault that holds one file
IngestNotesOneFile ==
    /\ pc = "idle"
    /\ \E path \in PurgeNotePaths, t \in PurgeNoteTexts, m \in {2} :
         /\ ingest_record(Working, NoteRecord(path, t, m)).db.seq.sources <= MaxSourceId
         /\ SetWorking(ingest_record(Working, NoteRecord(path, t, m)).db)
         /\ committed' = ingest_record(Working, NoteRecord(path, t, m)).db
         /\ Returned(NoteRecord(path, t, m), ingest_record(Working, NoteRecord(path, t, m)))

\* git.py 13-25, 70-71: ingest_git on a repository whose log holds one
\* commit, of another author
IngestGitOtherAuthor ==
    /\ pc = "idle"
    /\ \E repo \in PurgeRepos, p \in Patches(Sha2), n \in EnvNames, e \in EnvEmails :
         /\ load_target_author(n, e) # NULL
         /\ AuthorMismatch(CommitRow(Sha2, p), load_target_author(n, e))
         /\ SetWorking(delete_source_and_chunks(Working,
                                                GitRecordAt(repo, CommitRow(Sha2, p)).source_uri))
         /\ committed' = delete_source_and_chunks(Working,
                             GitRecordAt(repo, CommitRow(Sha2, p)).source_uri)
         /\ Returned(GitRecordAt(repo, CommitRow(Sha2, p)),
                     [source_id |-> 0, unchanged |-> FALSE, branch |-> "author_mismatch",
                      inserted |-> 0])

\* git.py 13-71: ingest_git on a repository whose log holds one commit, of
\* the target author
IngestGitOneCommit ==
    /\ pc = "idle"
    /\ \E repo \in PurgeRepos, p \in Patches(Sha2), n \in EnvNames, e \in EnvEmails :
         /\ load_target_author(n, e) # NULL
         /\ ~AuthorMismatch(CommitRow(Sha2, p), load_target_author(n, e))
         /\ ingest_record(Working, GitRecordAt(repo, CommitRow(Sha2, p))).db.seq.sources
              <= MaxSourceId
         /\ SetWorking(ingest_record(Working, GitRecordAt(repo, CommitRow(Sha2, p))).db)
         /\ committed' = ingest_record(Working, GitRecordAt(repo, CommitRow(Sha2, p))).db
         /\ Returned(GitRecordAt(repo, CommitRow(Sha2, p)),
                     ingest_record(Working, GitRecordAt(repo, CommitRow(Sha2, p))))

\* sample_data.py 78-115: the purge, conn.commit(), the counts returned
PurgeSeeded ==
    /\ pc = "idle"
    /\ \E ws \in Workspaces :
         /\ workspace_dir' = ws
         /\ SetWorking(purge_seeded_sample_data(Working, ws))
         /\ committed' = purge_seeded_sample_data(Working, ws)
         /\ purge_result' = PurgeCounts(Working, purge_seeded_sample_data(Working, ws))
    /\ NoFrame
    /\ UNCHANGED <<scoreVars, askVars, evalVars, upsertVars, parseVars, chunkVars, pc, exc>>

NextPurge == IngestNotesOneFile \/ IngestGitOtherAuthor \/ IngestGitOneCommit \/ PurgeSeeded

SpecPurge == InitPurge /\ [][NextPurge]_vars

(***************************************************************************)
(* Properties of purge_seeded_sample_data                                  *)
(***************************************************************************)
\* s begins with prefix, character for character
StartsWith(s, prefix) ==
    Len(prefix) <= Len(s) /\ SubSeq(s, 1, Len(prefix)) = prefix

\* the uri lies under the sample vault of workspace ws, or is a commit of
\* its sample repository
UnderWorkspace(uri, ws) ==
    \/ StartsWith(uri, ws \o <<"/">> \o SampleVaultName \o <<"/">>)
    \/ StartsWith(uri, ws \o <<"/">> \o SampleRepoName \o <<"@">>)

\* this step is a call of purge_seeded_sample_data
Purged == workspace_dir' # NULL

\* C24 as claimed: the purge deletes the Source rows whose uri lies under
\* the workspace's sample_vault directory or begins with its sample_repo
\* path and '@', the chunks those rows own, and the evaluation rows whose
\* text begins with '[sample]'; every other row of the three tables is as
\* it was.
C24_AsClaimed ==
    [][Purged =>
          LET gone == {r \in sources : UnderWorkspace(r.source_uri, workspace_dir')}
          IN  /\ sources' = sources \ gone
              /\ evidence_chunks' =
                   DeleteChunksIn(Working, {r.id : r \in gone}).evidence_chunks
              /\ queries_eval' =
                   {q \in queries_eval :
                       ~StartsWith(q.query_text, <<"[", "s", "a", "m", "p", "l", "e", "]">>)}]_vars

\* every chunk is owned by a row of sources
NoOrphan(db) ==
    \A c \in DOMAIN db.evidence_chunks : \E r \in db.sources : r.id = c.source_id

\* C25: in every state that calls of ingest_notes, ingest_git (the deletion
\* for another author and the collapse of duplicates included) and
\* purge_seeded_sample_data reach from a store without orphan chunks, in
\* any order, every chunk's source_id is the id of a row of sources, in what
\* the connection sees and in what is committed.
C25_NoOrphanChunks == NoOrphan(Working) /\ NoOrphan(committed)

\* a purge deleted a source with its chunks while another source keeps its
\* own
C25_Witness ==
    /\ purge_result # NULL
    /\ purge_result.source_rows_deleted >= 1
    /\ purge_result.chunk_rows_deleted >= 1
    /\ sources # {}
    /\ evidence_chunks # EmptyBag

(***************************************************************************)
(* Properties of the chunk rows the ingestion calls leave                  *)
(***************************************************************************)
\* the number of chunk rows of a source
ChunkCount(db, sid) == BagCardinality(ChunksOf(db, sid))

\* the source owns n chunk rows and their chunk_index values are 0, ..., n-1,
\* each once
IndexesAre(db, sid, n) ==
    /\ ChunkCount(db, sid) = n
    /\ \A i \in 0..(n - 1) :
         \E c \in DOMAIN db.evidence_chunks :
             c.source_id = sid /\ c.chunk_index = i /\ db.evidence_chunks[c] = 1

\* the length of the chunker's output for the record's text
ChunkerCount(a) == Len(chunk_text(a.text, WindowOf(a)[1], WindowOf(a)[2]))

\* C26 as claimed: after the ingestion of a record, whatever the branch, the
\* record's source owns exactly n chunk rows with chunk_index 0, ..., n-1,
\* n being the length of the chunker's output for the record's text.
C26_AsClaimed ==
    IngestedItem => IndexesAre(Working, source_id, ChunkerCount(item))

\* C26 amended: after the ingestion of a record the chunk_index values of
\* its source are 0, ..., n-1, each once; when the row was inserted or
\* judged changed n is the length of the chunker's output for the record's
\* text and no older chunk row is left, and when it was judged unchanged
\* (the legacy backfill included) the chunk rows are the ones the source had
\* before the call, whatever text they were cut from.
C26_ChunkIndexes ==
    IngestedItem =>
        /\ IndexesAre(Working, source_id, ChunkCount(Working, source_id))
        /\ branch \in {"insert", "changed"}
             => ChunkCount(Working, source_id) = ChunkerCount(item)
        /\ branch \in {"unchanged", "backfill"}
             => ChunksOf(Working, source_id) = ChunksOf(committed, source_id)

\* a changed text of fewer chunks replaced the chunks of a longer one
C26_Witness ==
    /\ IngestedItem
    /\ branch = "changed"
    /\ ChunkCount(committed, source_id) > ChunkCount(Working, source_id)
    /\ ChunkCount(Working, source_id) >= 1

(***************************************************************************)
(* Properties of the unchanged branch of the synchronizer                  *)
(***************************************************************************)
\* the synchronizer finds the newest row of the record's pair holding the
\* record's fingerprint
SameFingerprint ==
    /\ Synced
    /\ Found # <<>>
    /\ Canonical(Found).source_fingerprint # NULL
    /\ Canonical(Found).source_fingerprint = item'.source_fingerprint

\* C27: when the newest row of the record's pair holds a fingerprint and it
\* is the record's, the synchronizer reports the record unchanged and
\* returns that row's id; the row is afterwards as it was stored, timestamp,
\* title and metadata included, whatever the record's are; its chunks are
\* the same rows; the caller replaces no chunk; and the only rows that are
\* gone are the rows of the same pair with a lower id, with their chunks.
C27_UnchangedWritesNothing ==
    [][SameFingerprint =>
          LET kept == Canonical(Found)
              gone == {Found[i] : i \in 1..(Len(Found) - 1)}
          IN  /\ unchanged' /\ branch' = "unchanged"
              /\ source_id' = kept.id
              /\ pc' = pc
              /\ inserted_chunks' = inserted_chunks
              /\ kept \in sources'
              /\ sources' = sources \ gone
              /\ \A r \in gone : r.id < kept.id
              /\ ChunksOf(Working', kept.id) = ChunksOf(Working, kept.id)
              /\ evidence_chunks' =
                   DeleteChunksIn(Working, {r.id : r \in gone}).evidence_chunks
              /\ queries_eval' = queries_eval]_vars

\* a note whose modification time changed but whose text did not: the row
\* keeps the stored timestamp, and an older duplicate is gone
C27_Witness ==
    /\ IngestedItem
    /\ branch = "unchanged"
    /\ RowOf(Working, source_id).timestamp # item.timestamp
    /\ RowOf(Working, source_id).source_fingerprint = item.source_fingerprint
    /\ ChunksOf(Working, source_id) # EmptyBag
    /\ Cardinality(SourcesOf(committed, item.source_type, item.source_uri)) = 2
    /\ Cardinality(SourcesOf(Working, item.source_type, item.source_uri)) = 1

(***************************************************************************)
(* Properties of the fingerprint column over sequences of calls            *)
(***************************************************************************)
\* no row that holds a fingerprint in store `before' is without one in
\* store `after'
KeepsFingerprints(before, after) ==
    \A r \in before.sources, r2 \in after.sources :
        r.id = r2.id /\ r.source_fingerprint # NULL => r2.source_fingerprint # NULL

\* the row the synchronizer returned holds the record's fingerprint
FingerprintSet ==
    /\ branch' \in {"insert", "unchanged", "backfill", "changed"}
    /\ item'.source_fingerprint # NULL
    /\ \E r \in sources' :
         r.id = source_id' /\ r.source_fingerprint = item'.source_fingerprint

\* C28 as claimed: when the synchronizer returns, the canonical row holds the
\* record's fingerprint, which is not null, and no step of any sequence of
\* calls takes a row seen by the connection from a fingerprint back to null.
C28_AsClaimed ==
    [][/\ Synced => FingerprintSet
       /\ KeepsFingerprints(Working, Working')]_vars

\* C28 amended: when the synchronizer returns, on each branch, the canonical
\* row holds the record's fingerprint, which is not null; the legacy branch
\* is taken only for a row without fingerprint; no statement of a call and
\* no commit takes a row from a fingerprint back to null, and no committed
\* row ever loses its fingerprint.  (A call that fails after a backfill is
\* rolled back with it: the row is legacy again and the next call backfills
\* it once more.)
C28_FingerprintSet ==
    [][/\ Synced => FingerprintSet
       /\ (Synced /\ branch' = "backfill")
            => /\ Canonical(Found).source_fingerprint = NULL
               /\ Canonical(Found).id = source_id'
       /\ pc # "raised" => KeepsFingerprints(Working, Working')
       /\ KeepsFingerprints(committed, committed')]_vars

\* a backfill is in the transaction and not yet committed: the committed row
\* is without fingerprint, the row the connection sees holds the record's
C28_Witness ==
    /\ IngestedItem
    /\ branch = "backfill"
    /\ \E r \in committed.sources : r.id = source_id /\ r.source_fingerprint = NULL
    /\ \E r \in sources :
         /\ r.id = source_id
         /\ r.source_fingerprint = item.source_fingerprint
         /\ r.source_fingerprint # NULL

(***************************************************************************)
(* What an ingestion call leaves alone                                     *)
(***************************************************************************)
\* this step is a statement of ingest_notes or ingest_git
IngestionStep ==
    \/ pc \in {"notes", "notes_chunks", "git", "git_chunks"}
    \/ pc = "idle" /\ pc' \in {"notes", "git"}

\* this step handles one record: the author filter's deletion, the
\* synchronizer or the chunk step
RecordStep ==
    \/ Synced
    \/ ChunkStep
    \/ pc = "git" /\ pc' = "git" /\ branch' = "author_mismatch"

\* the rows of every pair other than (type, uri)
OtherSources(db, type, uri) == db.sources \ SourcesOf(db, type, uri)

\* the chunk rows of the sources whose id is not in ids
ChunksOutside(db, ids) == DeleteChunksIn(db, ids).evidence_chunks

\* the record of this step is one of the files or commits the call scanned
Scanned ==
    IF pc \in {"notes", "notes_chunks"}
    THEN /\ item'.source_type = "note"
         /\ \E i \in 1..Len(md_files) : md_files[i] = item'.source_uri
    ELSE /\ item'.source_type = "git_commit"
         /\ \E i \in 1..Len(rows) : GitRecord(rows[i]).source_uri = item'.source_uri

\* C29: a statement of an ingestion call that handles a record, which is one
\* of the files (ingest_notes) or commits (ingest_git) the call scanned,
\* leaves every sources row of another (source_type, source_uri) and every
\* chunk of such a row as it was, and so ingest_git leaves the note rows;
\* every other statement of the call leaves sources and evidence_chunks as
\* they were; and no statement of the call touches queries_eval.
C29_OnlyScannedPairs ==
    [][IngestionStep =>
          /\ queries_eval' = queries_eval
          /\ seq'.queries_eval = seq.queries_eval
          /\ IF RecordStep
             THEN LET type == item'.source_type
                      uri  == item'.source_uri
                      ids  == {r.id : r \in SourcesOf(Working, type, uri)
                                            \cup SourcesOf(Working', type, uri)}
                  IN  /\ Scanned
                      /\ OtherSources(Working', type, uri) = OtherSources(Working, type, uri)
                      /\ ChunksOutside(Working', ids) = ChunksOutside(Working, ids)
             ELSE sources' = sources /\ evidence_chunks' = evidence_chunks]_vars

\* a run over a vault from which a.md was removed has ingested b.md: the row
\* of a.md and its chunks are as committed, next to stored evaluation rows
C29_Witness ==
    /\ pc = "notes"
    /\ md_files = <<PathB>>
    /\ IngestedItem
    /\ item.source_uri = PathB
    /\ branch = "insert"
    /\ queries_eval # {}
    /\ \E r \in sources :
         /\ r.source_uri = PathA
         /\ r \in committed.sources
         /\ ChunksOf(Working, r.id) = ChunksOf(committed, r.id)
         /\ ChunksOf(Working, r.id) # EmptyBag

(***************************************************************************)
(* Properties of run_eval's summary                                        *)
(***************************************************************************)
\* C30: in the summary run_eval returns for a top_k of at least 1,
\* citation_hit_rate <= mrr_at_k <= recall_at_k, as floats; and of its
\* results, one of rank 1 counts as cited and as recalled, one of a rank
\* above 1 as recalled only, its reciprocal rank lying strictly between 0
\* and 1, and one without rank as neither.
C30_RatesOrdered ==
    (epc = "done" /\ top_k >= 1) =>
        /\ FLeq(summary.citation_hit_rate, summary.mrr_at_k)
        /\ FLeq(summary.mrr_at_k, summary.recall_at_k)
        /\ \A i \in 1..Len(summary.results) :
             LET r == summary.results[i]
             IN  IF r.first_correct_rank = NULL
                 THEN ~r.recall_hit /\ ~r.citation_hit
                 ELSE /\ r.recall_hit
                      /\ r.citation_hit <=> r.first_correct_rank = <<1>>
                      /\ r.first_correct_rank # <<1>> =>
                           /\ FLess(FZero, FDiv(FOne, FOfNat(r.first_correct_rank[1])))
                           /\ FLess(FDiv(FOne, FOfNat(r.first_correct_rank[1])), FOne)

\* a summary with a query of rank 2: the three rates differ
C30_Witness ==
    /\ epc = "done"
    /\ top_k >= 1
    /\ \E i \in 1..Len(summary.results) : summary.results[i].first_correct_rank = <<2>>
    /\ FLess(summary.citation_hit_rate, summary.mrr_at_k)
    /\ FLess(summary.mrr_at_k, summary.recall_at_k)
====
